---- MODULE Spec2Model ----
(***************************************************************************)
(* Model of the exchange-finder front end (React components, hooks and     *)
(* services under frontend/src) together with the back-end components it    *)
(* talks to (JobRegistry, ScrapeOrchestrator, ProgressChannel, search       *)
(* surface).  The back end is not part of the sources at hand; its          *)
(* definitions follow the design document and are marked as such.           *)
(*                                                                          *)
(* The module holds four sub-systems, each with its own next-state relation *)
(* over its own variables:                                                  *)
(*   SpecJob     JobRegistry + ScrapeOrchestrator + AdminPanel              *)
(*   SpecWS      ProgressChannel + WebSocketSearchClient + useWebSocket     *)
(*   SpecSearch  search surface + Search component                          *)
(*   SpecLogin   login endpoint + Login component + useSession + App        *)
(***************************************************************************)
EXTENDS Integers, Sequences, FiniteSets, TLC

VARIABLES
    \* ---- JobRegistry / ScrapeOrchestrator (back end)
    jobs,        \* persisted ScrapeJob records, job id = index
    orch,        \* live orchestrator run per job: phase of its loop
    store,       \* targets whose scraped mappings are stored (cache / database)
    cancelAt,    \* history: target index being processed when cancel was accepted
    \* ---- AdminPanel (front end)
    scrapeJob,   \* useState(null): the locally known job record
    isLoading,   \* useState(false)
    panelError,  \* useState(null)
    dbStatus,    \* useState(null)
    startReq,    \* the POST /api/admin/scrape round trip of startScrape
    statusReq,   \* the GET /api/admin/scrape/status/{id} round trip of fetchScrapeStatus
    latestReq,   \* the GET /api/admin/scrape/latest round trip of fetchLatestScrape
    dbReq,       \* the GET /api/admin/database/status round trip of fetchDatabaseStatus
    \* ---- ProgressChannel (back end), WebSocketSearchClient, useWebSocket
    conns,       \* one record per WebSocketSearchClient created, with its socket
    hook,        \* the useWebSocket state
    arrived,     \* history: steps of the progress events the current search's
                 \* connection has delivered
    \* ---- search surface (back end) and the Search component
    db,          \* the universities the store holds
    search,      \* the state of the Search component
    loadReq,     \* loadData of the mount effect
    searchReq,   \* the POST /api/search/db round trip of handleSearch
    \* ---- login surface (back end), Login, useSession
    login,       \* the state of the Login component
    loginReq,    \* the POST /api/login round trip of handleSubmit
    session,     \* useSession
    \* ---- SessionController (back end)
    sess,       \* the browser session and the position in _ensure_on_search_page
    \* ---- CacheStore (back end)
    cache,      \* the entries per key and the clock, in days
    lastPut,    \* history: the latest put per key since its last invalidation
    \* ---- Cache key (back end)
    fp,         \* the two queries and their cache keys
    \* ---- ScrapeOrchestrator.run (back end)
    run,        \* the per-target loop of one job
    \* ---- MatchRanker (back end)
    mr,         \* the inputs of rank and its last output
    \* ---- Credential handling
    durable,    \* what the back end persists and holds for the job
    \* ---- AdminPanel polling
    ap,         \* the mounted panel, its timers, the registry and the answers in flight
    \* ---- ModuleSelector
    msel        \* the module list and the two inputs of ModuleSelector

jobVars == <<jobs, orch, store, cancelAt, scrapeJob, isLoading, panelError, dbStatus,
            startReq, statusReq, latestReq, dbReq>>

wsVars == <<conns, hook, arrived>>

searchVars == <<db, search, loadReq, searchReq>>

loginVars == <<login, loginReq, session>>

sessVars == <<sess>>

cacheVars == <<cache, lastPut>>

keyVars == <<fp>>

runVars == <<run>>

rankVars == <<mr>>

credVars == <<durable>>

pollVars == <<ap>>

modVars == <<msel>>

vars == <<jobVars, wsVars, searchVars, loginVars, sessVars, cacheVars, keyVars, runVars, rankVars, credVars, pollVars, modVars>>

otherThanJob == <<wsVars, searchVars, loginVars, sessVars, cacheVars, keyVars, runVars, rankVars, credVars, pollVars, modVars>>

otherThanWS == <<jobVars, searchVars, loginVars, sessVars, cacheVars, keyVars, runVars, rankVars, credVars, pollVars, modVars>>

otherThanSearch == <<jobVars, wsVars, loginVars, sessVars, cacheVars, keyVars, runVars, rankVars, credVars, pollVars, modVars>>

otherThanLogin == <<jobVars, wsVars, searchVars, sessVars, cacheVars, keyVars, runVars, rankVars, credVars, pollVars, modVars>>

otherThanSess == <<jobVars, wsVars, searchVars, loginVars, cacheVars, keyVars, runVars, rankVars, credVars, pollVars, modVars>>

otherThanCache == <<jobVars, wsVars, searchVars, loginVars, sessVars, keyVars, runVars, rankVars, credVars, pollVars, modVars>>

otherThanKey == <<jobVars, wsVars, searchVars, loginVars, sessVars, cacheVars, runVars, rankVars, credVars, pollVars, modVars>>

otherThanRun == <<jobVars, wsVars, searchVars, loginVars, sessVars, cacheVars, keyVars, rankVars, credVars, pollVars, modVars>>

otherThanRank == <<jobVars, wsVars, searchVars, loginVars, sessVars, cacheVars, keyVars, runVars, credVars, pollVars, modVars>>

otherThanCred == <<jobVars, wsVars, searchVars, loginVars, sessVars, cacheVars, keyVars, runVars, rankVars, pollVars, modVars>>

otherThanPoll == <<jobVars, wsVars, searchVars, loginVars, sessVars, cacheVars, keyVars, runVars, rankVars, credVars, modVars>>

otherThanMod == <<jobVars, wsVars, searchVars, loginVars, sessVars, cacheVars, keyVars, runVars, rankVars, credVars, pollVars>>

\* ------------------------------------------------------------------ bounds
MaxJobs == 2
MaxTargets == 2

\* staleJobThresholdMinutes (configuration), in clock ticks
StaleThreshold == 1

NULL == "null"
NoCancel == 0 - 1

Terminal == {"Completed", "Failed", "Cancelled"}

\* ------------------------------------------------------------ JobRegistry
JobIds == 1..Len(jobs)

Running(js) == {j \in 1..Len(js) : js[j].status = "Running"}

\* A job as start() records it: Running, zero progress.  idle is the time
\* since the job's last progress update (clock - last update), in ticks; it
\* is read only while the job is Running and capped one past the threshold.
NewJob ==
    [status |-> "Running", total_targets |-> 0, completed_targets |-> 0,
     cancellation_requested |-> FALSE, idle |-> 0]

\* start(): the decision on the single "current job" slot.
StartNoGuard(js) == "ok"
StartResult(js) == IF Running(js) # {} THEN "AlreadyRunningError" ELSE "ok"

\* The job view returned by get-job-status.
JobView(js, j) ==
    [job_id |-> j,
     status |-> CASE js[j].status = "Running" -> "running"
                  [] js[j].status = "Completed" -> "completed"
                  [] js[j].status = "Failed" -> "failed"
                  [] OTHER -> "cancelled",
     total_countries |-> 0,
     completed_countries |-> 0,
     total_universities |-> js[j].total_targets,
     completed_universities |-> js[j].completed_targets]

Stale(job) == job.status = "Running" /\ job.idle > StaleThreshold

\* Terminal status is written by compare-and-swap from Running.
SetTerminal(job, s) ==
    IF job.status = "Running" THEN [job EXCEPT !.status = s, !.idle = 0] ELSE job

\* forceCancelStale(): the jobs after the scan, and the count it returns.
ForceAll(js) ==
    [j \in 1..Len(js) |-> SetTerminal(js[j], "Cancelled")]
ForceCancel(js) ==
    [j \in 1..Len(js) |-> IF Stale(js[j]) THEN SetTerminal(js[j], "Cancelled") ELSE js[j]]
ForceCount(js) == Cardinality({j \in 1..Len(js) : Stale(js[j])})

Changed(js, js2) == {j \in 1..Len(js) : js[j] # js2[j]}

\* cancelAt is kept for Running jobs only.
Forget(js2) ==
    [j \in 1..Len(cancelAt) |-> IF js2[j].status = "Running" THEN cancelAt[j] ELSE NoCancel]

panelVars == <<scrapeJob, isLoading, panelError, dbStatus, startReq, statusReq, latestReq, dbReq>>
registryVars == <<jobs, orch, store, cancelAt>>

\* The registry part of start(): record the job before the orchestration begins.
DoStart(r, maxJobs) ==
    /\ r = "ok" => Len(jobs) < maxJobs
    /\ jobs' = IF r = "ok" THEN Append(jobs, NewJob) ELSE jobs
    /\ orch' = IF r = "ok" THEN Append(orch, "discover") ELSE orch
    /\ cancelAt' = IF r = "ok" THEN Append(cancelAt, NoCancel) ELSE cancelAt
    /\ store' = store

\* start(credential, scope), called by another client of the job lifecycle surface.
start(maxJobs) ==
    /\ DoStart(StartResult(jobs), maxJobs)
    /\ UNCHANGED panelVars

\* cancel(jobId): sets the flag on the live job and returns immediately.
CancelFlag(js, j) ==
    IF j \in 1..Len(js) /\ js[j].status = "Running"
    THEN [js EXCEPT ![j].cancellation_requested = TRUE] ELSE js
CancelResult(js, j) == IF j \in 1..Len(js) THEN "ok" ELSE "JobNotFoundError"

cancel(j) ==
    /\ jobs' = CancelFlag(jobs, j)
    /\ cancelAt' = IF j \in JobIds /\ jobs[j].status = "Running"
                      /\ ~jobs[j].cancellation_requested /\ orch[j] = "process"
                   THEN [cancelAt EXCEPT ![j] = jobs[j].completed_targets]
                   ELSE cancelAt
    /\ UNCHANGED <<orch, store, panelVars>>

\* forceCancelStale() -> count
forceCancelStale ==
    /\ jobs' = ForceCancel(jobs)
    /\ cancelAt' = Forget(jobs')
    /\ UNCHANGED <<orch, store, panelVars>>

\* ----------------------------------------------------- ScrapeOrchestrator
\* A run that finds its job no longer Running (force-cancelled under it) ends.
Orphaned(j) == jobs[j].status # "Running"

Stop(j) ==
    /\ orch' = [orch EXCEPT ![j] = "none"]
    /\ UNCHANGED <<jobs, cancelAt, store>>

\* Step 5, between targets: observe the cancellation flag, else go on or finish.
BoundaryIgnoreCancel(job) ==
    IF job.completed_targets = job.total_targets THEN "Completed" ELSE "process"
BoundaryDecision(job) ==
    IF job.cancellation_requested THEN "Cancelled"
    ELSE IF job.completed_targets = job.total_targets THEN "Completed"
    ELSE "process"

\* What a run leaves in the store when it ends: nothing is discarded.
StoreAtBoundary(d, st) == st

\* The target boundary reached by job j with progress fields `job` and
\* gathered results `st`.
Boundary(j, job, st) ==
    LET d == BoundaryDecision(job) IN
    /\ jobs' = [jobs EXCEPT ![j] = IF d = "process" THEN job ELSE SetTerminal(job, d)]
    /\ orch' = [orch EXCEPT ![j] = IF d = "process" THEN "process" ELSE "none"]
    /\ store' = StoreAtBoundary(d, st)
    /\ cancelAt' = Forget(jobs')

\* Step 1: resolve the discovery targets; a failed authentication or an
\* exhausted retry budget ends the run with an error.
Discover(j, maxTargets) ==
    /\ j \in JobIds /\ orch[j] = "discover"
    /\ IF Orphaned(j) THEN Stop(j)
       ELSE \/ \E n \in 1..maxTargets :
                 Boundary(j, [jobs[j] EXCEPT !.total_targets = n, !.idle = 0], store)
            \/ /\ jobs' = [jobs EXCEPT ![j] = SetTerminal(jobs[j], "Failed")]
               /\ orch' = [orch EXCEPT ![j] = "none"]
               /\ cancelAt' = Forget(jobs')
               /\ store' = store
    /\ UNCHANGED panelVars

\* Steps 2-4 for the next target t: a cache hit, or a live query whose
\* result is stored, or a per-target error that is recorded and skipped.
\* The progress fields are updated after it, then the boundary is reached.
ProcessTarget(j) ==
    /\ j \in JobIds /\ orch[j] = "process"
    /\ IF Orphaned(j) THEN Stop(j)
       ELSE LET t == jobs[j].completed_targets + 1
                job == [jobs[j] EXCEPT !.completed_targets = t, !.idle = 0]
            IN  IF t \in store
                THEN Boundary(j, job, store)
                ELSE \E ok \in BOOLEAN :
                        Boundary(j, job, IF ok THEN store \cup {t} ELSE store)
    /\ UNCHANGED panelVars

Live == {"discover", "process"}

\* A process restart: persisted jobs survive, the orchestrator runs do not.
Restart ==
    /\ \E j \in JobIds : orch[j] \in Live
    /\ orch' = [j \in 1..Len(orch) |-> IF orch[j] \in Live THEN "none" ELSE orch[j]]
    /\ UNCHANGED <<jobs, cancelAt, store, panelVars>>

\* The clock advances: every Running job has gone one tick longer without
\* a progress update.
Tick ==
    /\ \E j \in JobIds : jobs[j].status = "Running" /\ jobs[j].idle <= StaleThreshold
    /\ jobs' = [j \in 1..Len(jobs) |->
                  IF jobs[j].status = "Running" /\ jobs[j].idle <= StaleThreshold
                  THEN [jobs[j] EXCEPT !.idle = @ + 1] ELSE jobs[j]]
    /\ UNCHANGED <<orch, cancelAt, store, panelVars>>

InitJob ==
    /\ jobs = <<>> /\ orch = <<>> /\ cancelAt = <<>>
    /\ store = {}
    /\ scrapeJob = [job_id |-> 0, status |-> NULL, total_countries |-> 0,
                    completed_countries |-> 0, total_universities |-> 0,
                    completed_universities |-> 0]
    /\ isLoading = FALSE /\ panelError = NULL
    /\ dbStatus = NULL
    /\ startReq = [st |-> "idle"]
    /\ statusReq = [st |-> "idle"]
    \* the mount effect has issued fetchDatabaseStatus() and fetchLatestScrape()
    /\ latestReq = [st |-> "sent"]
    /\ dbReq = "sent"

\* ======================================================================
\* ProgressChannel, WebSocketSearchClient (services/websocket.js) and the
\* useWebSocket hook
\* ======================================================================
MaxConns == 2
MaxMsgs == 2

\* PROGRESS_STEPS has the steps 1..3
NumSteps == 3

ProgressMsg(step) == [type |-> "progress", step |-> step]
CompleteMsg == [type |-> "complete", cache_used |-> TRUE]
ErrorMsg == [type |-> "error"]
UntypedMsg == [type |-> NULL]

\* constructor() of WebSocketSearchClient followed by connect() up to the
\* return of the promise: the socket is CONNECTING.
NewClient ==
    [ws |-> TRUE, isConnected |-> FALSE, ready |-> "CONNECTING", promise |-> "pending",
     timer |-> FALSE, srv |-> "idle", nsent |-> 0, wire |-> <<>>,
     terminals |-> 0, late |-> FALSE, rec |-> {}]

\* useWebSocket: the useState initial values and clientRef
HookInit ==
    [progressMessages |-> <<>>, results |-> NULL, error |-> NULL, isSearching |-> FALSE,
     currentStep |-> 0, executionTime |-> NULL, cacheUsed |-> FALSE, clientRef |-> 0]

\* client.on('progress', ...)
OnProgress(h, m) ==
    [h EXCEPT !.progressMessages = Append(@, [step |-> m.step, stepName |-> "progress"]),
              !.currentStep = m.step]

\* client.on('complete', ...)
OnCompleteAlsoError(h, m) ==
    [h EXCEPT !.results = "results", !.error = "undefined", !.executionTime = "time",
              !.cacheUsed = m.cache_used, !.isSearching = FALSE,
              !.progressMessages = Append(@, [step |-> 3, stepName |-> "Complete"])]
OnComplete(h, m) ==
    [h EXCEPT !.results = "results", !.executionTime = "time",
              !.cacheUsed = m.cache_used, !.isSearching = FALSE,
              !.progressMessages = Append(@, [step |-> 3, stepName |-> "Complete"])]

\* client.on('error', ...)
OnError(h, m) ==
    [h EXCEPT !.error = "server error", !.isSearching = FALSE,
              !.progressMessages = Append(@, [step |-> 0, stepName |-> "Error"])]

\* _handleMessage: the handlers registered for the message's type are called;
\* a message without a type, or of a type nobody registered for, calls none.
Dispatched(m) == m.type \in {"progress", "complete", "error"}

HandleMessage(h, m) ==
    CASE m.type = "progress" -> OnProgress(h, m)
      [] m.type = "complete" -> OnComplete(h, m)
      [] m.type = "error" -> OnError(h, m)
      [] OTHER -> h

\* a client that schedules the disconnect for a complete message only
SchedulesOnCompleteOnly(m) == m.type = "complete"

\* _handleMessage: auto-disconnect on complete or error
SchedulesDisconnect(m) == m.type = "complete" \/ m.type = "error"

\* what the handlers called for a message record in the hook (history)
Records(h, m) ==
    LET blank == [h EXCEPT !.results = NULL, !.error = NULL]
        after == HandleMessage(blank, m)
    IN (IF after.results # NULL THEN {"result"} ELSE {})
       \cup (IF after.error # NULL THEN {"error"} ELSE {})

ConnIds == 1..Len(conns)

\* startSearch up to `await client.connect(searchRequest)`
startSearch ==
    /\ Len(conns) < MaxConns
    /\ conns' = Append(conns, NewClient)
    /\ hook' = [HookInit EXCEPT !.isSearching = TRUE, !.clientRef = Len(conns) + 1]
    /\ arrived' = <<>>

\* the catch block of startSearch
ConnectFailed(h) == [h EXCEPT !.error = "Failed to connect to server", !.isSearching = FALSE]

\* ws.onopen: the request is sent and the promise resolves
OnOpen(c) ==
    /\ c \in ConnIds /\ conns[c].ready = "CONNECTING"
    /\ conns' = [conns EXCEPT ![c].ready = "OPEN", ![c].isConnected = TRUE,
                              ![c].promise = "resolved", ![c].srv = "streaming"]
    /\ UNCHANGED <<hook, arrived>>

\* ws.onerror then ws.onclose: reject(error) reaches the catch block of
\* startSearch only while the promise is pending.
SocketFailed(c, closedState) ==
    /\ conns' = [conns EXCEPT ![c].ready = closedState, ![c].isConnected = FALSE,
                              ![c].promise = IF @ = "pending" THEN "rejected" ELSE @,
                              ![c].rec = IF conns[c].promise = "pending"
                                         THEN @ \cup {"error"} ELSE @,
                              ![c].srv = "done", ![c].wire = <<>>]
    /\ hook' = IF conns[c].promise = "pending" THEN ConnectFailed(hook) ELSE hook
    /\ arrived' = arrived

\* the connection cannot be established, or an open connection is lost
ConnLost(c) ==
    /\ c \in ConnIds /\ conns[c].ready \in {"CONNECTING", "OPEN"}
    /\ SocketFailed(c, "CLOSED")

\* ProgressChannel.emit: progress events, then exactly one terminal event,
\* after which the channel is closed.
\* the pipeline reports its steps in order, the last one repeatedly
NextStep(n) == IF n + 1 < NumSteps THEN n + 1 ELSE NumSteps

\* messages emitted so far on the first n connections
RECURSIVE Emitted(_)
Emitted(n) == IF n = 0 THEN 0 ELSE conns[n].nsent + Emitted(n - 1)

AfterEmit(k) == IF k \in {"complete", "error"} THEN "done" ELSE "streaming"

ServerEmit(c) ==
    /\ c \in ConnIds /\ conns[c].srv = "streaming"
    /\ \E m \in {ProgressMsg(NextStep(conns[c].nsent)), UntypedMsg, ErrorMsg, CompleteMsg} :
         /\ Emitted(Len(conns)) < MaxMsgs
         /\ conns' = [conns EXCEPT ![c].wire = Append(@, m),
                                   ![c].nsent = @ + 1,
                                   ![c].srv = AfterEmit(m.type)]
    /\ UNCHANGED <<hook, arrived>>

\* ws.onmessage: JSON.parse, then _handleMessage
Deliver(c) ==
    /\ c \in ConnIds /\ conns[c].ready = "OPEN" /\ conns[c].wire # <<>>
    /\ LET m == Head(conns[c].wire) IN
       /\ conns' = [conns EXCEPT
                      ![c].wire = Tail(@),
                      ![c].timer = IF SchedulesDisconnect(m) THEN TRUE ELSE @,
                      ![c].late = @ \/ (Dispatched(m) /\ conns[c].terminals > 0),
                      ![c].terminals = IF m.type \in {"complete", "error"}
                                       THEN @ + 1 ELSE @,
                      ![c].rec = @ \cup Records(hook, m)]
       /\ hook' = HandleMessage(hook, m)
       /\ arrived' = IF m.type = "progress" /\ c = hook.clientRef
                     THEN Append(arrived, m.step) ELSE arrived

\* a disconnect that drops the reference and leaves the socket open
DisconnectForgets(conn) == [conn EXCEPT !.ws = FALSE, !.isConnected = FALSE]

\* disconnect(): close the socket and drop the reference
Disconnect(conn) ==
    IF conn.ws
    THEN [conn EXCEPT !.ws = FALSE, !.isConnected = FALSE,
                      !.ready = CASE @ = "CONNECTING" -> "ABORTING"
                                  [] @ = "OPEN" -> "CLOSING"
                                  [] OTHER -> @,
                      !.srv = "done", !.wire = <<>>]
    ELSE conn

\* isActive()
isActive(conn) == conn.isConnected /\ conn.ws /\ conn.ready = "OPEN"

\* setTimeout(() => this.disconnect(), 100)
DisconnectTimer(c) ==
    /\ c \in ConnIds /\ conns[c].timer
    /\ conns' = [conns EXCEPT ![c] = [Disconnect(conns[c]) EXCEPT !.timer = FALSE]]
    /\ UNCHANGED <<hook, arrived>>

\* the channel closes the stream after its terminal event: ws.onclose
ServerClose(c) ==
    /\ c \in ConnIds /\ conns[c].ready = "OPEN"
    /\ conns[c].srv = "done" /\ conns[c].wire = <<>>
    /\ conns' = [conns EXCEPT ![c].ready = "CLOSED", ![c].isConnected = FALSE]
    /\ UNCHANGED <<hook, arrived>>

\* a close() called by the client completes: ws.onclose; a socket closed
\* before it was open fails, which fires ws.onerror first.
CloseDone(c) ==
    /\ c \in ConnIds /\ conns[c].ready \in {"CLOSING", "ABORTING"}
    /\ IF conns[c].ready = "ABORTING"
       THEN SocketFailed(c, "CLOSED")
       ELSE /\ conns' = [conns EXCEPT ![c].ready = "CLOSED", ![c].isConnected = FALSE]
            /\ UNCHANGED <<hook, arrived>>

\* cancelSearch
cancelSearch ==
    /\ conns' = IF hook.clientRef # 0
                THEN [conns EXCEPT ![hook.clientRef] = Disconnect(@)] ELSE conns
    /\ hook' = [hook EXCEPT !.clientRef = 0, !.isSearching = FALSE,
                            !.progressMessages =
                                Append(@, [step |-> 0, stepName |-> "Cancelled"])]
    /\ \A i \in 1..Len(hook.progressMessages) :
          hook.progressMessages[i].stepName # "Cancelled"
    /\ arrived' = arrived

\* reset
reset ==
    /\ conns' = IF hook.clientRef # 0
                THEN [conns EXCEPT ![hook.clientRef] = Disconnect(@)] ELSE conns
    /\ hook' = HookInit
    /\ arrived' = <<>>

InitWS ==
    /\ conns = <<>>
    /\ hook = [progressMessages |-> <<>>, results |-> NULL, error |-> NULL,
               isSearching |-> FALSE, currentStep |-> 0, executionTime |-> NULL,
               cacheUsed |-> FALSE, clientRef |-> 0]
    /\ arrived = <<>>

NextWS ==
    \/ startSearch /\ UNCHANGED otherThanWS
    \/ \E c \in 1..MaxConns : OnOpen(c) /\ UNCHANGED otherThanWS
    \/ \E c \in 1..MaxConns : ConnLost(c) /\ UNCHANGED otherThanWS
    \/ \E c \in 1..MaxConns : ServerEmit(c) /\ UNCHANGED otherThanWS
    \/ \E c \in 1..MaxConns : Deliver(c) /\ UNCHANGED otherThanWS
    \/ \E c \in 1..MaxConns : DisconnectTimer(c) /\ UNCHANGED otherThanWS
    \/ \E c \in 1..MaxConns : ServerClose(c) /\ UNCHANGED otherThanWS
    \/ \E c \in 1..MaxConns : CloseDone(c) /\ UNCHANGED otherThanWS
    \/ cancelSearch /\ UNCHANGED otherThanWS
    \/ reset /\ UNCHANGED otherThanWS

\* ======================================================================
\* The search surface and the Search component (components/Search.jsx,
\* api.searchDatabase)
\* ======================================================================
MaxMin == 2

\* JavaScript values that may be undefined or null
Undefined == [kind |-> "undefined"]
Null == [kind |-> "null"]
Some(v) == [kind |-> "value", val |-> v]

DEFAULT_MIN_MAPPABLE_MODULES == 2

Modules == {[code |-> "SC4001"], [code |-> "SC4002"]}

\* what a populated store can hold
Catalog ==
    <<[name |-> "U1", country |-> "Australia", mappable |-> {"SC4001"}, sems |-> {1}],
      [name |-> "U2", country |-> "Japan", mappable |-> {"SC4001", "SC4002"},
       sems |-> {1, 2}]>>

Countries(d) == {Catalog[u].country : u \in d}

\* a default parameter value applies when the argument is undefined
Default(arg, d) == IF arg = Undefined THEN d ELSE arg

\* api.searchDatabase: the body of POST /api/search/db
searchDatabase(targetModules, targetCountries, targetSemester, minMappableModules) ==
    [target_modules |-> targetModules,
     target_countries |-> Default(targetCountries, Null),
     target_semester |-> Default(targetSemester, Null),
     min_mappable_modules |-> Default(minMappableModules, Some(1))]

\* the request handleSearch makes
SearchCall(st) ==
    searchDatabase(Some({m.code : m \in st.selectedModules}),
                   IF Cardinality(st.selectedCountries) > 0
                   THEN Some(st.selectedCountries) ELSE Null,
                   Some(st.minMappableModules),
                   Undefined)

\* search surface: the filter
Matches(u, body) ==
    /\ body.target_countries = Null \/ Catalog[u].country \in body.target_countries.val
    /\ body.target_semester = Null \/ body.target_semester.val \in Catalog[u].sems
    /\ Cardinality(Catalog[u].mappable \cap body.target_modules.val)
         >= body.min_mappable_modules.val

MappableCount(u, body) == Cardinality(Catalog[u].mappable \cap body.target_modules.val)

\* search surface: the matches, ranked by mappable count, then by position
RECURSIVE Ranked(_, _)
Ranked(us, body) ==
    IF us = {} THEN <<>>
    ELSE LET best == CHOOSE u \in us : \A v \in us :
                        \/ MappableCount(u, body) > MappableCount(v, body)
                        \/ MappableCount(u, body) = MappableCount(v, body) /\ u <= v
         IN <<best>> \o Ranked(us \ {best}, body)

\* search surface: EmptyDatabaseError when the store holds nothing
SearchDb(d, body) ==
    IF d = {}
    THEN [ok |-> FALSE, results |-> <<>>]
    ELSE [ok |-> TRUE, results |-> Ranked({u \in d : Matches(u, body)}, body)]

\* which of the cases of the search surface a request met (history)
SearchCase(d, body) ==
    IF d = {} THEN "empty"
    ELSE IF {u \in d : Matches(u, body)} = {} THEN "nomatch" ELSE "match"

\* useState initial values of Search
SearchInit ==
    [selectedCountries |-> {}, selectedModules |-> {},
     minMappableModules |-> DEFAULT_MIN_MAPPABLE_MODULES,
     results |-> Null, error |-> NULL, isSearching |-> FALSE, executionTime |-> NULL,
     dbStatus |-> NULL, availableCountries |-> {}, loadingCountries |-> TRUE]

\* a value in a boolean context: null and the empty string are falsy, an
\* array is truthy whatever its length
TruthyNonEmpty(v) == v # Null /\ Len(v.val) > 0
Truthy(v) == v # Null

\* a form that stays on screen while the search is in flight
showFormWhileSearching(st) == ~Truthy(st.results) /\ st.error = NULL

showForm(st) == ~st.isSearching /\ ~Truthy(st.results) /\ st.error = NULL
showResults(st) == ~st.isSearching /\ Truthy(st.results)
showError(st) == ~st.isSearching /\ st.error # NULL /\ ~Truthy(st.results)

\* a Search button that ignores the database status
SearchEnabledAnyStatus(st) == showForm(st) /\ ~st.isSearching

\* the Search button is rendered in the form, disabled={isSearching || !dbStatus?.populated}
SearchEnabled(st) == showForm(st) /\ ~st.isSearching /\ st.dbStatus = "populated"

NoRequest == [st |-> "idle", case |-> "none"]

\* loadData resolves: getDatabaseStatus and getAvailableCountries answered
LoadDone ==
    /\ loadReq = "sent"
    /\ loadReq' = "done"
    /\ search' = [search EXCEPT !.dbStatus = IF db = {} THEN "empty" ELSE "populated",
                                !.availableCountries = Countries(db),
                                !.loadingCountries = FALSE]
    /\ UNCHANGED <<db, searchReq>>

\* loadData: one of the two requests fails
LoadFailed ==
    /\ loadReq = "sent"
    /\ loadReq' = "done"
    /\ search' = [search EXCEPT
                    !.error = "Failed to load database. Please run admin scrape first.",
                    !.loadingCountries = FALSE]
    /\ UNCHANGED <<db, searchReq>>

\* the country <select> onChange
setSelectedCountries ==
    /\ showForm(search) /\ ~search.loadingCountries
    /\ \E cs \in SUBSET search.availableCountries :
         search' = [search EXCEPT !.selectedCountries = cs]
    /\ UNCHANGED <<db, loadReq, searchReq>>

\* ModuleSelector onChange
setSelectedModules ==
    /\ showForm(search)
    /\ \E ms \in SUBSET Modules : search' = [search EXCEPT !.selectedModules = ms]
    /\ UNCHANGED <<db, loadReq, searchReq>>

\* parseInt(e.target.value) || 1
ParseMin(v) == IF v = 0 THEN 1 ELSE v

\* the minimum input's onChange
setMinMappableModules ==
    /\ showForm(search)
    /\ \E v \in 0..MaxMin : search' = [search EXCEPT !.minMappableModules = ParseMin(v)]
    /\ UNCHANGED <<db, loadReq, searchReq>>

\* handleSearch up to the await
handleSearch ==
    /\ SearchEnabled(search)
    /\ IF Cardinality(search.selectedModules) = 0
       THEN UNCHANGED <<search, searchReq>>
       ELSE /\ search' = [search EXCEPT !.isSearching = TRUE, !.error = NULL,
                                        !.results = Null]
            /\ searchReq' = [st |-> "sent", case |-> "none", body |-> SearchCall(search)]
    /\ UNCHANGED <<db, loadReq>>

\* the search surface answers
HandleSearchDb ==
    /\ searchReq.st = "sent"
    /\ searchReq' = [st |-> "answered", case |-> SearchCase(db, searchReq.body),
                     body |-> searchReq.body, resp |-> SearchDb(db, searchReq.body)]
    /\ UNCHANGED <<db, search, loadReq>>

\* the request fails without an answer
SearchRequestFailed ==
    /\ searchReq.st = "sent"
    /\ searchReq' = [st |-> "answered", case |-> "failed", body |-> searchReq.body,
                     resp |-> [ok |-> FALSE, results |-> <<>>]]
    /\ UNCHANGED <<db, search, loadReq>>

\* handleSearch after the await: try, catch and finally
SearchDone ==
    /\ searchReq.st = "answered"
    /\ search' = IF searchReq.resp.ok
                 THEN [search EXCEPT !.results = Some(searchReq.resp.results),
                                     !.executionTime = "time", !.isSearching = FALSE]
                 ELSE [search EXCEPT
                         !.error = "Search failed. Is the database populated?",
                         !.isSearching = FALSE]
    /\ searchReq' = [st |-> "idle", case |-> searchReq.case]
    /\ UNCHANGED <<db, loadReq>>

\* handleNewSearch: 'New Search' and 'Try Again'
handleNewSearch ==
    /\ showResults(search) \/ showError(search)
    /\ search' = [search EXCEPT !.results = Null, !.error = NULL, !.executionTime = NULL]
    /\ UNCHANGED <<db, loadReq, searchReq>>

\* a scrape job stores its mappings
DbPopulate ==
    /\ \E d \in SUBSET (DOMAIN Catalog) : d # {} /\ d # db /\ db' = d
    /\ UNCHANGED <<search, loadReq, searchReq>>

\* api.clearDatabase
clearDatabase ==
    /\ db # {}
    /\ db' = {}
    /\ UNCHANGED <<search, loadReq, searchReq>>

InitSearch ==
    /\ db = {}
    /\ search = SearchInit
    /\ loadReq = "sent"
    /\ searchReq = NoRequest

NextSearch ==
    \/ LoadDone /\ UNCHANGED otherThanSearch
    \/ LoadFailed /\ UNCHANGED otherThanSearch
    \/ setSelectedCountries /\ UNCHANGED otherThanSearch
    \/ setSelectedModules /\ UNCHANGED otherThanSearch
    \/ setMinMappableModules /\ UNCHANGED otherThanSearch
    \/ handleSearch /\ UNCHANGED otherThanSearch
    \/ HandleSearchDb /\ UNCHANGED otherThanSearch
    \/ SearchRequestFailed /\ UNCHANGED otherThanSearch
    \/ SearchDone /\ UNCHANGED otherThanSearch
    \/ handleNewSearch /\ UNCHANGED otherThanSearch
    \/ DbPopulate /\ UNCHANGED otherThanSearch
    \/ clearDatabase /\ UNCHANGED otherThanSearch

\* ======================================================================
\* The login surface, the Login component (components/Login.jsx) and
\* useSession
\* ======================================================================
Usernames == {"", " ", "alice "}
Passwords == {"", "secret"}
DOMAINS == {"Student", "Staff"}

\* String.prototype.trim on the user names above
trim(u) == IF u = " " THEN "" ELSE IF u = "alice " THEN "alice" ELSE u

\* useState initial values of Login
LoginInit ==
    [username |-> "", password |-> "", domain |-> "Student", errors |-> {},
     isLoading |-> FALSE, loginError |-> NULL]

NoCredentials == [username |-> NULL, password |-> NULL, domain |-> NULL]

\* useSession: session is null
NoSession == [present |-> FALSE, credentials |-> NoCredentials]

createSession(credentials) == [present |-> TRUE, credentials |-> credentials]

isAuthenticated == session.present /\ session.credentials # NoCredentials

\* App renders Login only while not authenticated
LoginShown == ~isAuthenticated

\* validateForm: the new errors
validateForm(st) ==
    (IF trim(st.username) = "" THEN {"username"} ELSE {})
    \cup (IF st.password = "" THEN {"password"} ELSE {})

setUsername ==
    /\ LoginShown /\ ~login.isLoading
    /\ \E u \in Usernames : login' = [login EXCEPT !.username = u]
    /\ UNCHANGED <<loginReq, session>>

setPassword ==
    /\ LoginShown /\ ~login.isLoading
    /\ \E pw \in Passwords : login' = [login EXCEPT !.password = pw]
    /\ UNCHANGED <<loginReq, session>>

setDomain ==
    /\ LoginShown /\ ~login.isLoading
    /\ \E d \in DOMAINS : login' = [login EXCEPT !.domain = d]
    /\ UNCHANGED <<loginReq, session>>

NoLoginRequest == [st |-> "idle"]

\* handleSubmit up to the await; the submit button is disabled={isLoading}
handleSubmit ==
    /\ LoginShown /\ ~login.isLoading
    /\ IF validateForm(login) # {}
       THEN /\ login' = [login EXCEPT !.errors = validateForm(login)]
            /\ UNCHANGED loginReq
       ELSE /\ login' = [login EXCEPT !.errors = {}, !.isLoading = TRUE,
                                      !.loginError = NULL]
            /\ loginReq' = [st |-> "sent",
                            credentials |-> [username |-> trim(login.username),
                                             password |-> login.password,
                                             domain |-> login.domain]]
    /\ UNCHANGED session

\* login surface: the answer to POST /api/login, or the request throwing
LoginAnswers ==
    {[thrown |-> FALSE, success |-> TRUE, message |-> "Login successful"],
     [thrown |-> FALSE, success |-> FALSE, message |-> "Invalid credentials"],
     [thrown |-> FALSE, success |-> FALSE, message |-> ""],
     [thrown |-> TRUE, success |-> FALSE, message |-> "timeout"]}

VerifyLogin ==
    /\ loginReq.st = "sent"
    /\ \E r \in LoginAnswers :
         loginReq' = [st |-> "answered", credentials |-> loginReq.credentials,
                      result |-> r]
    /\ UNCHANGED <<login, session>>

\* if (result.success)
GrantedAlways(r) == TRUE
Granted(r) == ~r.thrown /\ r.success

\* result.message || 'Login failed', and the catch block's message
LoginErrorOf(r) ==
    IF r.thrown THEN "Error: " \o r.message
    ELSE IF r.message # "" THEN r.message ELSE "Login failed"

\* handleSubmit after the await: try, catch and finally. On success App
\* replaces Login by Search, and the Login state is discarded.
LoginDone ==
    /\ loginReq.st = "answered"
    /\ IF Granted(loginReq.result)
       THEN /\ session' = createSession(loginReq.credentials)
            /\ login' = LoginInit
       ELSE /\ session' = session
            /\ login' = [login EXCEPT !.loginError = LoginErrorOf(loginReq.result),
                                      !.isLoading = FALSE]
    /\ loginReq' = NoLoginRequest

\* Navbar onLogout
clearSession ==
    /\ isAuthenticated
    /\ session' = NoSession
    /\ UNCHANGED <<login, loginReq>>

InitLogin ==
    /\ login = LoginInit
    /\ loginReq = NoLoginRequest
    /\ session = NoSession

NextLogin ==
    \/ setUsername /\ UNCHANGED otherThanLogin
    \/ setPassword /\ UNCHANGED otherThanLogin
    \/ setDomain /\ UNCHANGED otherThanLogin
    \/ handleSubmit /\ UNCHANGED otherThanLogin
    \/ VerifyLogin /\ UNCHANGED otherThanLogin
    \/ LoginDone /\ UNCHANGED otherThanLogin
    \/ clearSession /\ UNCHANGED otherThanLogin

\* ======================================================================
\* SessionController: _ensure_on_search_page, the location-signal check
\* ======================================================================
target_url == "https://wis.ntu.edu.sg/pls/lms/instep_past_subj_matching.show_rec2"

\* the pages the browser can be on
Urls ==
    {"https://wis.ntu.edu.sg/pls/lms/instep_past_subj_matching.show_rec2?p_stu_id=u",
     "https://loginfs.ntu.edu.sg/cas/auth",
     "https://sso.wis.ntu.edu.sg/webexe88/owa/sso_login1.asp",
     "https://wis.ntu.edu.sg/pls/lms/instep_main.menu",
     "about:blank"}

\* "instep_past_subj_matching" in url
OnSearchPage(url) ==
    url = "https://wis.ntu.edu.sg/pls/lms/instep_past_subj_matching.show_rec2?p_stu_id=u"

\* "ntu.edu.sg/cas/" in url
OnCas(url) == url = "https://loginfs.ntu.edu.sg/cas/auth"

\* "login" in url.lower()
HasLogin(url) ==
    url \in {"https://loginfs.ntu.edu.sg/cas/auth",
             "https://sso.wis.ntu.edu.sg/webexe88/owa/sso_login1.asp"}

\* the first check's test for the login surface
OnLoginSurface(url) == OnCas(url) \/ HasLogin(url)

SessInit ==
    [current_url |-> "about:blank", authenticated |-> FALSE, pc |-> "idle",
     result |-> "none", first |-> "about:blank", logins |-> 0, navigations |-> 0]

\* between two calls the browser is driven to another page, or the portal
\* ends the session and shows its login page
PageChanges ==
    /\ sess.pc = "idle"
    /\ \E u \in Urls : u # sess.current_url /\ sess' = [sess EXCEPT !.current_url = u]

\* _ensure_on_search_page is called
EnsureCall ==
    /\ sess.pc = "idle"
    /\ sess' = [sess EXCEPT !.pc = "check", !.result = "none",
                            !.first = sess.current_url, !.logins = 0,
                            !.navigations = 0]

\* the except branch: print the error, return False
EnsureRaises ==
    /\ sess.pc \in {"check", "verify"}
    /\ sess' = [sess EXCEPT !.pc = "returned", !.result = "False"]

\* the first check of current_url, up to driver.get(...)
EnsureCheck ==
    /\ sess.pc = "check"
    /\ IF OnSearchPage(sess.current_url)
       THEN sess' = [sess EXCEPT !.pc = "returned", !.result = "True"]
       ELSE IF OnLoginSurface(sess.current_url)
       THEN sess' = [sess EXCEPT !.authenticated = FALSE, !.pc = "login"]
       ELSE \E u \in Urls :
              sess' = [sess EXCEPT !.current_url = u, !.navigations = @ + 1,
                                   !.pc = "verify"]

\* what the re-verification after the navigation decides
VerifyDecision(url) ==
    IF OnSearchPage(url) THEN "True"
    ELSE IF OnCas(url) THEN "login"
    ELSE "True"

\* the re-verification of current_url after the navigation
EnsureVerify ==
    /\ sess.pc = "verify"
    /\ sess' = IF VerifyDecision(sess.current_url) = "login"
               THEN [sess EXCEPT !.authenticated = FALSE, !.pc = "login"]
               ELSE [sess EXCEPT !.pc = "returned",
                                 !.result = VerifyDecision(sess.current_url)]

\* return self.login(): the login flow ends on the search page, or fails on
\* the login page
EnsureLogin ==
    /\ sess.pc = "login"
    /\ \/ sess' = [sess EXCEPT
                     !.current_url =
                        "https://wis.ntu.edu.sg/pls/lms/instep_past_subj_matching.show_rec2?p_stu_id=u",
                     !.authenticated = TRUE, !.logins = @ + 1,
                     !.pc = "returned", !.result = "True"]
       \/ sess' = [sess EXCEPT !.current_url = "https://loginfs.ntu.edu.sg/cas/auth",
                               !.logins = @ + 1,
                               !.pc = "returned", !.result = "False"]

\* the caller goes on
EnsureReturned ==
    /\ sess.pc = "returned"
    /\ sess' = [sess EXCEPT !.pc = "idle"]

InitSess == sess = SessInit

NextSess ==
    \/ PageChanges /\ UNCHANGED otherThanSess
    \/ EnsureCall /\ UNCHANGED otherThanSess
    \/ EnsureRaises /\ UNCHANGED otherThanSess
    \/ EnsureCheck /\ UNCHANGED otherThanSess
    \/ EnsureVerify /\ UNCHANGED otherThanSess
    \/ EnsureLogin /\ UNCHANGED otherThanSess
    \/ EnsureReturned /\ UNCHANGED otherThanSess

\* ======================================================================
\* CacheStore: put, get, invalidate and the expiry of entries (time in days)
\* ======================================================================
MaxAdvances == 3

\* TTL of the university list (Reference class) and of the module mappings
\* (Query class), in days
REFERENCE_TTL_DAYS == 365
QUERY_TTL_DAYS == 30

CacheKeys == {"k1", "k2"}
TtlClasses == {"Reference", "Query"}
Payloads == {"v1", "v2"}

\* how far the clock moves in one step: one day, to the eve of the query
\* expiry, and from there to the eve of the reference expiry
Jumps == {1, QUERY_TTL_DAYS - 1, REFERENCE_TTL_DAYS - QUERY_TTL_DAYS}

Ttl(c) == IF c = "Reference" THEN REFERENCE_TTL_DAYS ELSE QUERY_TTL_DAYS

NoEntry == [present |-> FALSE]

\* the CacheEntry put creates
NewEntry(k, c, v, t) ==
    [present |-> TRUE, key |-> k, payload |-> v, created_at |-> t, ttl_class |-> c,
     expires_at |-> t + Ttl(c)]

\* put(key, ttlClass, payload): overwrites any prior entry for that key
Put(st, k, c, v, t) == [st EXCEPT ![k] = NewEntry(k, c, v, t)]

\* get(key, ttlClass): None if absent or past expires_at
GetIgnoresExpiry(st, k, c, t) ==
    IF st[k].present /\ st[k].ttl_class = c THEN Some(st[k].payload) ELSE Null
Get(st, k, c, t) ==
    IF st[k].present /\ st[k].ttl_class = c /\ t < st[k].expires_at
    THEN Some(st[k].payload) ELSE Null

\* invalidate(predicate), for the predicate "the key is k"
Invalidate(st, k) == [st EXCEPT ![k] = NoEntry]

NoPut == [put |-> FALSE]

CachePut ==
    \E k \in CacheKeys, c \in TtlClasses, v \in Payloads :
        /\ cache' = [cache EXCEPT !.entries = Put(@, k, c, v, cache.now)]
        /\ lastPut' = [lastPut EXCEPT ![k] = [put |-> TRUE, class |-> c, payload |-> v,
                                              at |-> cache.now]]

CacheInvalidate ==
    \E k \in CacheKeys :
        /\ cache.entries[k].present
        /\ cache' = [cache EXCEPT !.entries = Invalidate(@, k)]
        /\ lastPut' = [lastPut EXCEPT ![k] = NoPut]

\* time passes
CacheAdvance ==
    /\ cache.advances < MaxAdvances
    /\ \E d \in Jumps : cache' = [cache EXCEPT !.now = @ + d, !.advances = @ + 1]
    /\ lastPut' = lastPut

InitCache ==
    /\ cache = [entries |-> [k \in CacheKeys |-> NoEntry], now |-> 0, advances |-> 0]
    /\ lastPut = [k \in CacheKeys |-> NoPut]

NextCache ==
    \/ CachePut /\ UNCHANGED otherThanCache
    \/ CacheInvalidate /\ UNCHANGED otherThanCache
    \/ CacheAdvance /\ UNCHANGED otherThanCache

\* ======================================================================
\* Cache key of a mapping query (back end).  The key is
\* SHA256(countries + modules + username) over the normalised query; the
\* digest is taken as collision-free, so a key is represented by the
\* canonical text that is hashed.
\* ======================================================================

MaxList == 2

KeyCountries == <<"Australia", "Sweden">>

KeyModules == <<"SC4001", "SC4002">>

KeyUsers == {"alice", "bob"}

Queries == {"a", "b"}

Elems(seq) == {seq[i] : i \in 1..Len(seq)}

\* The list as given: what the key would hash without normalisation.
AsGiven(seq, order) == seq

\* The normalised list: the distinct elements in a fixed (alphabetical) order.
Canon(seq, order) == SelectSeq(order, LAMBDA x : x \in Elems(seq))

CacheKey(q) ==
    <<Canon(q.countries, KeyCountries), Canon(q.modules, KeyModules), q.username>>

EmptyQuery == [countries |-> <<>>, modules |-> <<>>, username |-> "alice", key |-> Null]

KeyAddCountry(n, c) ==
    /\ Len(fp[n].countries) < MaxList
    /\ fp' = [fp EXCEPT ![n].countries = Append(@, c), ![n].key = Null]

KeyAddModule(n, m) ==
    /\ Len(fp[n].modules) < MaxList
    /\ fp' = [fp EXCEPT ![n].modules = Append(@, m), ![n].key = Null]

KeySetUser(n, u) ==
    /\ fp[n].username # u
    /\ fp' = [fp EXCEPT ![n].username = u, ![n].key = Null]

KeyCompute(n) ==
    /\ fp[n].key = Null
    /\ fp' = [fp EXCEPT ![n].key = Some(CacheKey(fp[n]))]

InitKey == fp = [n \in Queries |-> EmptyQuery]

NextKey ==
    \/ \E n \in Queries, c \in Elems(KeyCountries) : KeyAddCountry(n, c) /\ UNCHANGED otherThanKey
    \/ \E n \in Queries, m \in Elems(KeyModules) : KeyAddModule(n, m) /\ UNCHANGED otherThanKey
    \/ \E n \in Queries, u \in KeyUsers : KeySetUser(n, u) /\ UNCHANGED otherThanKey
    \/ \E n \in Queries : KeyCompute(n) /\ UNCHANGED otherThanKey

\* ======================================================================
\* ScrapeOrchestrator.run (back end): the per-target loop of one job, with
\* the Query-class cache check, the rate-limit delay, the live portal
\* request and the per-target error handling.
\* ======================================================================

MaxRunTargets == 3

DELAY_MIN == 2

DELAY_MAX == 3

RunTargets == 1..MaxRunTargets

Delays == DELAY_MIN..DELAY_MAX

\* What follows the cache check of a target.
AfterCheckNoDelay(hit) == IF hit THEN "after" ELSE "request"

AfterCheck(hit) == IF hit THEN "after" ELSE "delay"

\* What an unrecoverable error of one target does to the job.
OnTargetErrorAborts(r, t) ==
    [r EXCEPT !.status = "Failed", !.pc = "done", !.in_flight = @ - 1,
              !.outcome[t] = "error", !.errors = @ \cup {t}]

OnTargetError(r, t) ==
    [r EXCEPT !.pc = "after", !.in_flight = @ - 1,
              !.outcome[t] = "error", !.errors = @ \cup {t}]

RunIdle ==
    [pc |-> "idle", status |-> "Pending", target |-> 0, cached |-> {},
     slept |-> [t \in RunTargets |-> 0], outcome |-> [t \in RunTargets |-> "none"],
     order |-> <<>>, in_flight |-> 0, data |-> {}, errors |-> {},
     completed_targets |-> 0]

\* run(job, ...) begins; the Query-class cache holds results for some targets.
RunBegin(hits) ==
    /\ run.pc = "idle"
    /\ run' = [run EXCEPT !.pc = "check", !.status = "Running", !.target = 1,
                          !.cached = hits]

\* step 2: Query-class cache check of the current target.
RunCheck ==
    /\ run.pc = "check"
    /\ LET t == run.target
           hit == t \in run.cached
       IN run' = [run EXCEPT !.pc = AfterCheck(hit),
                             !.order = Append(@, t),
                             !.outcome[t] = IF hit THEN "hit" ELSE @,
                             !.data = IF hit THEN @ \cup {t} ELSE @]

\* step 3: randomized sleep within [min, max] before the live request.
RunSleep(d) ==
    /\ run.pc = "delay"
    /\ run' = [run EXCEPT !.pc = "request", !.slept[run.target] = d]

\* step 2, miss: the live query is sent to the portal.
RunRequest ==
    /\ run.pc = "request"
    /\ run' = [run EXCEPT !.pc = "waiting", !.in_flight = @ + 1]

\* the portal answers with a result that parses: cached and accumulated.
RunResponse ==
    /\ run.pc = "waiting"
    /\ LET t == run.target
       IN run' = [run EXCEPT !.pc = "after", !.in_flight = @ - 1,
                             !.outcome[t] = "ok", !.data = @ \cup {t},
                             !.cached = @ \cup {t}]

\* step 6: the portal answers with a malformed response.
RunTargetError ==
    /\ run.pc = "waiting"
    /\ run' = OnTargetError(run, run.target)

\* step 4: progress is updated after each target; then the next target, or
\* the end of the job.
RunAfter ==
    /\ run.pc = "after"
    /\ run' = IF run.target < MaxRunTargets
              THEN [run EXCEPT !.pc = "check", !.target = @ + 1,
                               !.completed_targets = @ + 1]
              ELSE [run EXCEPT !.pc = "done", !.status = "Completed",
                               !.completed_targets = @ + 1]

InitRun == run = RunIdle

NextRun ==
    \/ \E hits \in SUBSET RunTargets : RunBegin(hits) /\ UNCHANGED otherThanRun
    \/ RunCheck /\ UNCHANGED otherThanRun
    \/ \E d \in Delays : RunSleep(d) /\ UNCHANGED otherThanRun
    \/ RunRequest /\ UNCHANGED otherThanRun
    \/ RunResponse /\ UNCHANGED otherThanRun
    \/ RunTargetError /\ UNCHANGED otherThanRun
    \/ RunAfter /\ UNCHANGED otherThanRun

\* ======================================================================
\* MatchRanker.rank (back end): joins the static capacity/eligibility
\* records with the scraped module mappings, filters, scores and orders.
\* GPA values are in tenths (37 is 3.7) and the coverage score is in whole
\* percent.
\* ======================================================================

MaxUnis == 3

Unknown == [kind |-> "unknown"]

\* the static dataset's records a caller can pass, by university name
StaticPool ==
    [Melbourne |-> [country |-> "Australia", accepts |-> TRUE, sem1_spots |-> 3,
                    sem2_spots |-> 1, min_cgpa |-> 37],
     Sydney    |-> [country |-> "Australia", accepts |-> TRUE, sem1_spots |-> 3,
                    sem2_spots |-> 0, min_cgpa |-> 35],
     Monash    |-> [country |-> "Australia", accepts |-> TRUE, sem1_spots |-> 5,
                    sem2_spots |-> 2, min_cgpa |-> 38],
     DTU       |-> [country |-> "Denmark", accepts |-> TRUE, sem1_spots |-> 16,
                    sem2_spots |-> 13, min_cgpa |-> 35],
     Aarhus    |-> [country |-> "Denmark", accepts |-> FALSE, sem1_spots |-> 4,
                    sem2_spots |-> 4, min_cgpa |-> 30],
     KTH       |-> [country |-> "Sweden", accepts |-> TRUE, sem1_spots |-> 2,
                    sem2_spots |-> 2, min_cgpa |-> 30],
     Lund      |-> [country |-> "Sweden", accepts |-> TRUE, sem1_spots |-> 2,
                    sem2_spots |-> 2, min_cgpa |-> 30],
     Uppsala   |-> [country |-> "Sweden", accepts |-> TRUE, sem1_spots |-> 0,
                    sem2_spots |-> 0, min_cgpa |-> 30]]

\* the scraped mappings: country and target modules with an approved mapping
ScrapedPool ==
    [Melbourne |-> [country |-> "Australia", mapped |-> {"SC4001", "SC4002"}],
     Sydney    |-> [country |-> "Australia", mapped |-> {"SC4001", "SC4002"}],
     Monash    |-> [country |-> "Australia", mapped |-> {"SC4001"}],
     DTU       |-> [country |-> "Denmark", mapped |-> {"SC4001"}],
     Aarhus    |-> [country |-> "Denmark", mapped |-> {"SC4001", "SC4002"}],
     KTH       |-> [country |-> "Sweden", mapped |-> {"SC4001", "SC4002"}],
     Lund      |-> [country |-> "Sweden", mapped |-> {"SC4001", "SC4002"}],
     Uppsala   |-> [country |-> "Sweden", mapped |-> {"SC4001", "SC4002"}],
     Oslo      |-> [country |-> "Norway", mapped |-> {"SC4001", "SC4002"}]]

\* a university the portal lists and the static dataset does not have
ScrapedOnly == <<"Oslo">>

TargetChoices == {{"SC4001"}, {"SC4002"}, {"SC4001", "SC4002"}}

CountryChoices ==
    {Null, Some({"Australia"}), Some({"Denmark", "Sweden"}), Some({"Norway", "Sweden"})}

MinChoices == {1, 2}

Semesters == {1, 2}

CountryOrder == <<"Australia", "Denmark", "Norway", "Sweden">>

CountryIndex(c) == CHOOSE i \in 1..Len(CountryOrder) : CountryOrder[i] = c

\* the universities rank sees, in input order: the static records, then the
\* universities that only the scraped mappings have
Candidates(static) == static \o ScrapedOnly

HasStatic(static, u) == u \in Elems(static)

\* capacity for the requested semester, Unknown for a university without a
\* static record
Capacity(static, u, sem) ==
    IF HasStatic(static, u)
    THEN Some(IF sem = 1 THEN StaticPool[u].sem1_spots ELSE StaticPool[u].sem2_spots)
    ELSE Unknown

CoverageOfMapped(count, total) == IF count = 0 THEN 0 ELSE 100

Coverage(count, total) == (100 * count) \div total

\* one joined row of the output, before ranks are given
Joined(static, u, f) ==
    LET mappable == ScrapedPool[u].mapped \cap f.targets
    IN [name |-> u,
        country |-> ScrapedPool[u].country,
        spots |-> Capacity(static, u, f.semester),
        min_cgpa |-> IF HasStatic(static, u) THEN StaticPool[u].min_cgpa ELSE 0,
        mappable_modules |-> mappable,
        unmappable_modules |-> f.targets \ mappable,
        mappable_count |-> Cardinality(mappable),
        coverage_score |-> Coverage(Cardinality(mappable), Cardinality(f.targets))]

\* the filter: country, cohort, capacity, minimum of mappable modules; a
\* university without a static record has nothing to fail the cohort and
\* capacity tests with and is kept, its capacity shown as Unknown
Included(static, u, f) ==
    LET row == Joined(static, u, f)
    IN /\ f.countries = Null \/ row.country \in f.countries.val
       /\ HasStatic(static, u) => StaticPool[u].accepts /\ row.spots.val > 0
       /\ row.mappable_count >= f.min_mappable

SpotsKey(row) == IF row.spots = Unknown THEN 0 ELSE row.spots.val

BeforeByCount(a, b) == a.mappable_count > b.mappable_count

\* a sorts strictly before b: country ascending, mappable_count descending,
\* capacity descending, minimum GPA ascending
Before(a, b) ==
    IF a.country # b.country THEN CountryIndex(a.country) < CountryIndex(b.country)
    ELSE IF a.mappable_count # b.mappable_count THEN a.mappable_count > b.mappable_count
    ELSE IF SpotsKey(a) # SpotsKey(b) THEN SpotsKey(a) > SpotsKey(b)
    ELSE a.min_cgpa < b.min_cgpa

\* stable insertion: x goes behind every row that does not sort after it
RECURSIVE InsertRow(_, _)
InsertRow(x, sorted) ==
    IF sorted = <<>> THEN <<x>>
    ELSE IF Before(x, Head(sorted)) THEN <<x>> \o sorted
    ELSE <<Head(sorted)>> \o InsertRow(x, Tail(sorted))

RECURSIVE SortRows(_)
SortRows(rows) ==
    IF rows = <<>> THEN <<>>
    ELSE InsertRow(rows[Len(rows)], SortRows(SubSeq(rows, 1, Len(rows) - 1)))

WithRanks(rows) ==
    [i \in 1..Len(rows) |->
        [rank |-> i, name |-> rows[i].name, country |-> rows[i].country,
         spots |-> rows[i].spots, min_cgpa |-> rows[i].min_cgpa,
         mappable_modules |-> rows[i].mappable_modules,
         unmappable_modules |-> rows[i].unmappable_modules,
         mappable_count |-> rows[i].mappable_count,
         coverage_score |-> rows[i].coverage_score]]

rank(static, f) ==
    LET cands == Candidates(static)
        kept == SelectSeq(cands, LAMBDA u : Included(static, u, f))
        rows == [i \in 1..Len(kept) |-> Joined(static, kept[i], f)]
    IN WithRanks(SortRows(rows))

NoFilters ==
    [targets |-> {"SC4001", "SC4002"}, countries |-> Null, min_mappable |-> 1,
     semester |-> 1]

\* the caller puts one more static record into the input
RankAddStatic(u) ==
    /\ Len(mr.static) < MaxUnis
    /\ u \notin Elems(mr.static)
    /\ mr' = [mr EXCEPT !.static = Append(@, u), !.out = Null]

\* the caller gives the request, one parameter at a time
RankSetTargets(t) ==
    /\ t # mr.filters.targets
    /\ mr' = [mr EXCEPT !.filters.targets = t, !.out = Null]

RankSetCountries(c) ==
    /\ c # mr.filters.countries
    /\ mr' = [mr EXCEPT !.filters.countries = c, !.out = Null]

RankSetMin(m) ==
    /\ m # mr.filters.min_mappable
    /\ mr' = [mr EXCEPT !.filters.min_mappable = m, !.out = Null]

RankSetSemester(sem) ==
    /\ sem # mr.filters.semester
    /\ mr' = [mr EXCEPT !.filters.semester = sem, !.out = Null]

RankCall ==
    mr' = [mr EXCEPT !.out = Some(rank(mr.static, mr.filters))]

InitRank == mr = [static |-> <<>>, filters |-> NoFilters, out |-> Null]

NextRank ==
    \/ \E u \in DOMAIN StaticPool : RankAddStatic(u) /\ UNCHANGED otherThanRank
    \/ \E t \in TargetChoices : RankSetTargets(t) /\ UNCHANGED otherThanRank
    \/ \E c \in CountryChoices : RankSetCountries(c) /\ UNCHANGED otherThanRank
    \/ \E m \in MinChoices : RankSetMin(m) /\ UNCHANGED otherThanRank
    \/ \E sem \in Semesters : RankSetSemester(sem) /\ UNCHANGED otherThanRank
    \/ RankCall /\ UNCHANGED otherThanRank

\* ======================================================================
\* The credential on its way from the client session to the back end: what
\* the job registry persists and what the cache holds while a job that was
\* started with the session's credentials runs.
\* ======================================================================

MaxCredJobs == 1

\* useSession.getCredentials: session?.credentials || null
getCredentials == IF session.present THEN session.credentials ELSE NoCredentials

\* the attributes of a ScrapeJob and of a CacheEntry
ScrapeJobFields ==
    {"id", "status", "started_at", "completed_at", "total_targets", "completed_targets",
     "current_target_label", "error_message", "cancellation_requested"}

CacheEntryFields == {"present", "key", "payload", "created_at", "ttl_class", "expires_at"}

\* the record start(credential, scope) persists, with the credential kept
PersistedJobKeepsCredential(id, credential) ==
    [id |-> id, status |-> "Running", started_at |-> id, completed_at |-> 0,
     total_targets |-> 0, completed_targets |-> 0, current_target_label |-> "",
     error_message |-> "", cancellation_requested |-> FALSE,
     credential |-> credential]

\* the record start(credential, scope) persists
PersistedJob(id, credential) ==
    [id |-> id, status |-> "Running", started_at |-> id, completed_at |-> 0,
     total_targets |-> 0, completed_targets |-> 0, current_target_label |-> "",
     error_message |-> "", cancellation_requested |-> FALSE]

\* SHA256 of the normalised query; the requester's name goes into the digest
Digest(text) == [sha256_of |-> text]

MappingKey(credential) ==
    Digest(CacheKey([countries |-> <<"Sweden">>, modules |-> <<"SC4001">>,
                     username |-> credential.username]))

NoDurable == [jobs |-> <<>>, entries |-> {}, held |-> NoCredentials]

\* start-job with the session's credentials: the job is recorded and the
\* credential is held in memory for the job's duration
CredStartJob ==
    /\ isAuthenticated
    /\ durable.held = NoCredentials
    /\ Len(durable.jobs) < MaxCredJobs
    /\ durable' = [durable EXCEPT
                      !.jobs = Append(@, PersistedJob(Len(@) + 1, getCredentials)),
                      !.held = getCredentials]

\* the running job caches the mappings it scraped for the requester
CredCachePut ==
    /\ durable.held # NoCredentials
    /\ durable' = [durable EXCEPT
                      !.entries = @ \cup {NewEntry(MappingKey(durable.held), "Query",
                                                   "mappings", 0)}]

\* the job ends and the credential is dropped
CredFinishJob ==
    /\ durable.held # NoCredentials
    /\ durable' = [durable EXCEPT
                      !.jobs[Len(durable.jobs)].status = "Completed",
                      !.jobs[Len(durable.jobs)].completed_at = 1,
                      !.held = NoCredentials]

InitCred == durable = NoDurable

NextCred ==
    \/ setUsername /\ UNCHANGED otherThanLogin
    \/ setPassword /\ UNCHANGED otherThanLogin
    \/ setDomain /\ UNCHANGED otherThanLogin
    \/ handleSubmit /\ UNCHANGED otherThanLogin
    \/ VerifyLogin /\ UNCHANGED otherThanLogin
    \/ LoginDone /\ UNCHANGED otherThanLogin
    \/ clearSession /\ UNCHANGED otherThanLogin
    \/ CredStartJob /\ UNCHANGED otherThanCred
    \/ CredCachePut /\ UNCHANGED otherThanCred
    \/ CredFinishJob /\ UNCHANGED otherThanCred

\* ======================================================================
\* AdminPanel: the polling effect, the timer it keeps in pollingRef, and
\* cancelScrape / forceCancelScrape. The registry is the single-flight
\* registry above reduced to the status of each job; requests are answered
\* by the registry when they are sent and the answers are handled by the
\* panel later, in any order.
\* ======================================================================

MaxPollJobs == 2

MaxTimers == 2

MaxInbox == 2

NoScrapeJob == [job_id |-> 0, status |-> NULL]

Unmounted ==
    [mounted |-> FALSE, scrapeJob |-> NoScrapeJob, pollingRef |-> 0, timers |-> <<>>,
     live |-> {}, error |-> NULL, isLoading |-> FALSE, inbox |-> {},
     server |-> <<>>, flagged |-> {}]

\* clearInterval(pollingRef.current), as the cleanups do it: the reference
\* keeps the handle
ClearTimer(a) ==
    IF a.pollingRef # 0 THEN [a EXCEPT !.live = @ \ {a.pollingRef}] ELSE a

\* the body of the polling effect; fetchScrapeStatus is the function of the
\* render the effect belongs to, so the timer keeps that render's job_id
PollingBody(a) ==
    IF a.scrapeJob.status = "running"
    THEN [a EXCEPT !.timers = Append(@, a.scrapeJob.job_id),
                   !.live = @ \cup {Len(a.timers) + 1},
                   !.pollingRef = Len(a.timers) + 1]
    ELSE [ClearTimer(a) EXCEPT !.pollingRef = 0]

\* useEffect(..., [scrapeJob?.status]): after a render in which the status
\* differs from the previous one, the cleanup of the previous effect and then
\* the body
PollingEffect(a, prev) ==
    IF a.scrapeJob.status = prev THEN a ELSE PollingBody(ClearTimer(a))

\* setScrapeJob(job) and the render that follows
SetScrapeJob(a, job) ==
    PollingEffect([a EXCEPT !.scrapeJob = job], a.scrapeJob.status)

\* the registry's view of a job, and of its latest job
PollView(a, j) == [job_id |-> j, status |-> a.server[j]]

ServerRunning(a) == {j \in 1..Len(a.server) : a.server[j] = "running"}

Post(a, r) == [a EXCEPT !.inbox = @ \cup {r}]

CanPost(r) == r \in ap.inbox \/ Cardinality(ap.inbox) < MaxInbox

\* the component mounts: fetchLatestScrape() is issued and the polling
\* effect runs for the first time
PanelMount ==
    /\ ~ap.mounted
    /\ LET a == [ap EXCEPT !.mounted = TRUE]
           r == IF a.server = <<>> THEN [kind |-> "latest", ok |-> FALSE, view |-> NoScrapeJob]
                ELSE [kind |-> "latest", ok |-> TRUE, view |-> PollView(a, Len(a.server))]
       IN ap' = Post(PollingBody(a), r)

\* the component unmounts: the cleanups of both effects; answers that
\* arrive later find no component
PanelUnmount ==
    /\ ap.mounted
    /\ ap' = [ClearTimer(ap) EXCEPT !.mounted = FALSE, !.scrapeJob = NoScrapeJob,
                                    !.pollingRef = 0, !.error = NULL,
                                    !.isLoading = FALSE, !.inbox = {}]

\* another client starts a job (single flight)
ServerStart ==
    /\ Len(ap.server) < MaxPollJobs
    /\ ServerRunning(ap) = {}
    /\ ap' = [ap EXCEPT !.server = Append(@, "running")]

\* the orchestrator ends a job: cancelled when the flag is set, else completed
ServerEnd(j) ==
    /\ j \in ServerRunning(ap)
    /\ ap' = [ap EXCEPT !.server[j] = IF j \in ap.flagged THEN "cancelled" ELSE "completed"]

\* a start control that stays enabled while a start request is in flight
StartOfferedWhileLoading(a) == a.scrapeJob.status # "running"

\* the start control is rendered while the status is not 'running' and is
\* disabled while isLoading
StartOffered(a) == a.scrapeJob.status # "running" /\ ~a.isLoading

\* startScrape up to the await, and the registry's answer
PanelStart ==
    /\ ap.mounted /\ StartOffered(ap)
    /\ LET ok == ServerRunning(ap) = {} /\ Len(ap.server) < MaxPollJobs
           r == [kind |-> "start", ok |-> ok,
                 view |-> [job_id |-> IF ok THEN Len(ap.server) + 1 ELSE 0,
                           status |-> "running"]]
       IN /\ CanPost(r)
          /\ ap' = Post([ap EXCEPT !.isLoading = TRUE, !.error = NULL,
                                   !.server = IF ok THEN Append(@, "running") ELSE @], r)

\* a tick of a live timer: fetchScrapeStatus of the render that set it
PanelTick(h) ==
    /\ ap.mounted /\ h \in ap.live
    /\ LET j == ap.timers[h]
           r == [kind |-> "status", ok |-> j \in 1..Len(ap.server),
                 view |-> IF j \in 1..Len(ap.server) THEN PollView(ap, j) ELSE NoScrapeJob]
       IN /\ j # 0
          /\ CanPost(r)
          /\ ap' = Post(ap, r)

\* cancelScrape up to the await: the request reaches the registry, which
\* sets the flag of a running job, or it fails
PanelCancel ==
    /\ ap.mounted /\ ap.scrapeJob.status = "running" /\ ap.scrapeJob.job_id # 0
    /\ \E ok \in BOOLEAN :
         LET j == ap.scrapeJob.job_id
             r == [kind |-> "cancel", ok |-> ok, view |-> [job_id |-> j, status |-> NULL]]
         IN /\ CanPost(r)
            /\ ap' = Post([ap EXCEPT !.flagged = IF ok /\ j \in ServerRunning(ap)
                                                  THEN @ \cup {j} ELSE @], r)

\* forceCancelScrape: stale running jobs are cancelled by the registry, then
\* setError(null) and fetchLatestScrape()
PanelForceCancel ==
    /\ ap.mounted /\ ap.scrapeJob.status = "running"
    /\ \E stale \in BOOLEAN :
         LET srv == [j \in 1..Len(ap.server) |->
                        IF stale /\ ap.server[j] = "running" THEN "cancelled"
                        ELSE ap.server[j]]
             r == IF srv = <<>> THEN [kind |-> "latest", ok |-> FALSE, view |-> NoScrapeJob]
                  ELSE [kind |-> "latest", ok |-> TRUE,
                        view |-> [job_id |-> Len(srv), status |-> srv[Len(srv)]]]
         IN /\ CanPost(r)
            /\ ap' = Post([ap EXCEPT !.server = srv, !.error = NULL], r)

CancelFailed == "Failed to cancel scrape. Try Force Cancel if the job is stuck."

\* a cancelScrape that marks the job cancelled as soon as the request succeeds
HandleSetsCancelled(a, r) ==
    CASE r.kind = "start" ->
            [(IF r.ok THEN SetScrapeJob(a, r.view)
              ELSE [a EXCEPT !.error = "Failed to start scrape"])
             EXCEPT !.isLoading = FALSE]
      [] r.kind = "status" -> IF r.ok THEN SetScrapeJob(a, r.view) ELSE a
      [] r.kind = "latest" -> IF r.ok THEN SetScrapeJob(a, r.view) ELSE a
      [] r.kind = "cancel" ->
            IF r.ok
            THEN SetScrapeJob(a, [job_id |-> r.view.job_id, status |-> "cancelled"])
            ELSE [a EXCEPT !.error = CancelFailed]

\* the continuation of the function that awaited the answer r
Handle(a, r) ==
    CASE r.kind = "start" ->
            [(IF r.ok THEN SetScrapeJob(a, r.view)
              ELSE [a EXCEPT !.error = "Failed to start scrape"])
             EXCEPT !.isLoading = FALSE]
      [] r.kind = "status" -> IF r.ok THEN SetScrapeJob(a, r.view) ELSE a
      [] r.kind = "latest" -> IF r.ok THEN SetScrapeJob(a, r.view) ELSE a
      [] r.kind = "cancel" ->
            IF r.ok
            THEN \* fetchScrapeStatus() of the render cancelScrape belongs to
                 LET j == r.view.job_id
                 IN Post(a, [kind |-> "status", ok |-> j \in 1..Len(a.server),
                             view |-> IF j \in 1..Len(a.server) THEN PollView(a, j)
                                      ELSE NoScrapeJob])
            ELSE [a EXCEPT !.error = CancelFailed]

PanelHandle(r) ==
    /\ ap.mounted /\ r \in ap.inbox
    /\ ap' = Handle([ap EXCEPT !.inbox = @ \ {r}], r)

InitPoll == ap = Unmounted

NextPoll ==
    \/ PanelMount /\ Len(ap.timers) < MaxTimers /\ UNCHANGED otherThanPoll
    \/ PanelUnmount /\ UNCHANGED otherThanPoll
    \/ ServerStart /\ UNCHANGED otherThanPoll
    \/ \E j \in 1..MaxPollJobs : ServerEnd(j) /\ UNCHANGED otherThanPoll
    \/ PanelStart /\ UNCHANGED otherThanPoll
    \/ \E h \in 1..MaxTimers : PanelTick(h) /\ UNCHANGED otherThanPoll
    \/ PanelCancel /\ UNCHANGED otherThanPoll
    \/ PanelForceCancel /\ UNCHANGED otherThanPoll
    \/ \E r \in ap.inbox : PanelHandle(r) /\ Len(ap.timers) < MaxTimers /\ UNCHANGED otherThanPoll

\* ======================================================================
\* ModuleSelector (components/ModuleSelector.jsx): the two inputs and the
\* selectedModules list it edits through onChange. A text is the sequence
\* of its characters.
\* ======================================================================

MaxModules == 3

\* what the user types into the module code input
CodeInputs ==
    {<<>>, <<" ">>, <<"a">>, <<"A">>, <<" ", "a", " ">>, <<"b">>, <<"a", "b">>,
     <<"a", " ", "b">>}

\* what the user types into the module name input
NameInputs == {<<>>, <<" ">>, <<" ", "n">>}

\* String.prototype.trim
RECURSIVE TrimStart(_)
TrimStart(s) == IF s # <<>> /\ Head(s) = " " THEN TrimStart(Tail(s)) ELSE s

RECURSIVE TrimEnd(_)
TrimEnd(s) ==
    IF s # <<>> /\ s[Len(s)] = " " THEN TrimEnd(SubSeq(s, 1, Len(s) - 1)) ELSE s

trimText(s) == TrimEnd(TrimStart(s))

\* String.prototype.toUpperCase
UpperChar(ch) == CASE ch = "a" -> "A" [] ch = "b" -> "B" [] ch = "n" -> "N" [] OTHER -> ch

toUpperCase(s) == [i \in 1..Len(s) |-> UpperChar(s[i])]

\* a code that is trimmed but keeps its case
CodeAsTyped(raw) == trimText(raw)

\* const code = moduleCode.trim().toUpperCase()
CodeOf(raw) == toUpperCase(trimText(raw))

\* selectedModules.some(m => m.code === code)
HasCode(mods, code) == \E i \in 1..Len(mods) : mods[i].code = code

\* handleAddModule: the list handed to onChange, or the list as it is after
\* an alert
AddModule(mods, rawCode, rawName) ==
    LET code == CodeOf(rawCode)
        name == trimText(rawName)
    IN IF code = <<>> THEN mods
       ELSE IF HasCode(mods, code) THEN mods
       ELSE Append(mods, [code |-> code, name |-> IF name = <<>> THEN code ELSE name])

\* handleRemoveModule: selectedModules.filter(m => m.code !== code)
RemoveModule(mods, code) ==
    LET keep(m) == m.code # code IN SelectSeq(mods, keep)

setModuleCode(s) ==
    /\ s # msel.moduleCode
    /\ msel' = [msel EXCEPT !.moduleCode = s]

setModuleName(s) ==
    /\ s # msel.moduleName
    /\ msel' = [msel EXCEPT !.moduleName = s]

\* handleAddModule: the inputs are cleared only when a module was added
handleAddModule ==
    LET mods == AddModule(msel.selectedModules, msel.moduleCode, msel.moduleName)
    IN /\ Len(mods) <= MaxModules
       /\ msel' = IF mods = msel.selectedModules THEN msel
                  ELSE [selectedModules |-> mods, moduleCode |-> <<>>, moduleName |-> <<>>]

\* the remove button of the module with this code
handleRemoveModule(code) ==
    /\ HasCode(msel.selectedModules, code)
    /\ msel' = [msel EXCEPT !.selectedModules = RemoveModule(@, code)]

InitMod == msel = [selectedModules |-> <<>>, moduleCode |-> <<>>, moduleName |-> <<>>]

NextMod ==
    \/ \E s \in CodeInputs : setModuleCode(s) /\ UNCHANGED otherThanMod
    \/ \E s \in NameInputs : setModuleName(s) /\ UNCHANGED otherThanMod
    \/ handleAddModule /\ UNCHANGED otherThanMod
    \/ \E raw \in CodeInputs : handleRemoveModule(CodeOf(raw)) /\ UNCHANGED otherThanMod

Init == InitJob /\ InitWS /\ InitSearch /\ InitLogin /\ InitSess /\ InitCache /\ InitKey /\ InitRun /\ InitRank /\ InitCred /\ InitPoll /\ InitMod

NextJob ==
    \/ start(MaxJobs) /\ UNCHANGED otherThanJob
    \/ \E j \in 1..MaxJobs : cancel(j) /\ UNCHANGED otherThanJob
    \/ forceCancelStale /\ UNCHANGED otherThanJob
    \/ \E j \in 1..MaxJobs : Discover(j, MaxTargets) /\ UNCHANGED otherThanJob
    \/ \E j \in 1..MaxJobs : ProcessTarget(j) /\ UNCHANGED otherThanJob
    \/ Restart /\ UNCHANGED otherThanJob
    \/ Tick /\ UNCHANGED otherThanJob

\* ------------------------------------------------------------- AdminPanel
Idle == [st |-> "idle"]

\* The panel is checked against a registry holding one job and one target
\* less than the registry alone.
PanelJobs == MaxJobs - 1
PanelTargets == MaxTargets - 1

\* useState(null) of scrapeJob: no job record
NoJob ==
    [job_id |-> 0, status |-> NULL, total_countries |-> 0, completed_countries |-> 0,
     total_universities |-> 0, completed_universities |-> 0]

\* The record startScrape stores after a successful start.
StartedJobQueued(id) ==
    [job_id |-> id, status |-> "queued", total_countries |-> 0, completed_countries |-> 0,
     total_universities |-> 0, completed_universities |-> 0]
StartedJob(id) ==
    [job_id |-> id, status |-> "running", total_countries |-> 0, completed_countries |-> 0,
     total_universities |-> 0, completed_universities |-> 0]

\* scrapeJob?.status and scrapeJob?.job_id (undefined while scrapeJob is null)
LocalStatus == scrapeJob.status
LocalJobId == scrapeJob.job_id

\* fetchDatabaseStatus(): fire and forget; its response is handled by DbStatusDone.
FetchDatabaseStatus == "sent"

\* startScrape, up to the await: the control is rendered while the local
\* status is not 'running' and is disabled while isLoading.
StartScrapeClick ==
    /\ LocalStatus # "running" /\ ~isLoading
    /\ isLoading' = TRUE
    /\ panelError' = NULL
    /\ startReq' = [st |-> "sent"]
    /\ UNCHANGED <<registryVars, scrapeJob, dbStatus, statusReq, latestReq, dbReq>>

\* POST /api/admin/scrape reaches the registry; the response may be lost.
HandleStart ==
    /\ startReq.st = "sent"
    /\ LET r == StartResult(jobs) IN
       /\ DoStart(r, PanelJobs)
       /\ \E delivered \in BOOLEAN :
            startReq' = IF ~delivered THEN [st |-> "failed"]
                        ELSE IF r = "ok" THEN [st |-> "ok", job_id |-> Len(jobs) + 1]
                        ELSE [st |-> "rejected"]
    /\ UNCHANGED <<scrapeJob, isLoading, panelError, dbStatus, statusReq, latestReq, dbReq>>

\* startScrape after the await: try / catch / finally.
StartScrapeDone ==
    /\ startReq.st \in {"ok", "rejected", "failed"}
    /\ IF startReq.st = "ok"
       THEN /\ scrapeJob' = StartedJob(startReq.job_id)
            /\ panelError' = panelError
       ELSE /\ scrapeJob' = scrapeJob
            /\ panelError' = IF startReq.st = "rejected" THEN "AlreadyRunningError"
                             ELSE "Failed to start scrape"
    /\ isLoading' = FALSE
    /\ startReq' = Idle
    /\ UNCHANGED <<registryVars, dbStatus, statusReq, latestReq, dbReq>>

\* fetchScrapeStatus, up to the await; it is called by the polling timer,
\* which exists while the local status is 'running', and by cancelScrape.
FetchScrapeStatus ==
    /\ LocalStatus = "running"
    /\ statusReq = Idle
    /\ statusReq' = [st |-> "sent", job_id |-> scrapeJob.job_id]
    /\ UNCHANGED <<registryVars, scrapeJob, isLoading, panelError, dbStatus, startReq,
                   latestReq, dbReq>>

\* GET /api/admin/scrape/status/{id}: status(jobId) on the registry.
HandleStatus ==
    /\ statusReq.st = "sent"
    /\ \E delivered \in BOOLEAN :
         statusReq' = IF ~delivered THEN [st |-> "failed"]
                      ELSE IF statusReq.job_id \in JobIds
                      THEN [st |-> "ok", view |-> JobView(jobs, statusReq.job_id)]
                      ELSE [st |-> "notfound"]
    /\ UNCHANGED <<registryVars, scrapeJob, isLoading, panelError, dbStatus, startReq,
                   latestReq, dbReq>>

\* fetchScrapeStatus after the await.
ScrapeStatusDone ==
    /\ statusReq.st \in {"ok", "notfound", "failed"}
    /\ IF statusReq.st = "ok"
       THEN /\ scrapeJob' = statusReq.view
            /\ dbReq' = FetchDatabaseStatus
       ELSE UNCHANGED <<scrapeJob, dbReq>>
    /\ statusReq' = Idle
    /\ UNCHANGED <<registryVars, isLoading, panelError, dbStatus, startReq, latestReq>>

\* GET /api/admin/scrape/latest: the latest job record, 404 when there is none.
HandleLatest ==
    /\ latestReq.st = "sent"
    /\ \E delivered \in BOOLEAN :
         latestReq' = IF ~delivered \/ jobs = <<>> THEN [st |-> "failed"]
                      ELSE [st |-> "ok", view |-> JobView(jobs, Len(jobs))]
    /\ UNCHANGED <<registryVars, scrapeJob, isLoading, panelError, dbStatus, startReq,
                   statusReq, dbReq>>

\* fetchLatestScrape after the await.
LatestScrapeDone ==
    /\ latestReq.st \in {"ok", "failed"}
    /\ scrapeJob' = IF latestReq.st = "ok" THEN latestReq.view ELSE scrapeJob
    /\ latestReq' = Idle
    /\ UNCHANGED <<registryVars, isLoading, panelError, dbStatus, startReq, statusReq, dbReq>>

\* GET /api/admin/database/status and fetchDatabaseStatus after the await.
DbStatusDone ==
    /\ dbReq = "sent"
    /\ \E delivered \in BOOLEAN :
         dbStatus' = IF delivered THEN (IF store # {} THEN "populated" ELSE "empty")
                     ELSE dbStatus
    /\ dbReq' = "idle"
    /\ UNCHANGED <<registryVars, scrapeJob, isLoading, panelError, startReq, statusReq,
                   latestReq>>

NextPanel ==
    \/ start(PanelJobs) /\ UNCHANGED otherThanJob
    \/ \E j \in 1..PanelJobs : cancel(j) /\ UNCHANGED otherThanJob
    \/ \E j \in 1..PanelJobs : Discover(j, PanelTargets) /\ UNCHANGED otherThanJob
    \/ \E j \in 1..PanelJobs : ProcessTarget(j) /\ UNCHANGED otherThanJob
    \/ Restart /\ UNCHANGED otherThanJob
    \/ StartScrapeClick /\ UNCHANGED otherThanJob
    \/ HandleStart /\ UNCHANGED otherThanJob
    \/ StartScrapeDone /\ UNCHANGED otherThanJob
    \/ FetchScrapeStatus /\ UNCHANGED otherThanJob
    \/ HandleStatus /\ UNCHANGED otherThanJob
    \/ ScrapeStatusDone /\ UNCHANGED otherThanJob
    \/ HandleLatest /\ UNCHANGED otherThanJob
    \/ LatestScrapeDone /\ UNCHANGED otherThanJob
    \/ DbStatusDone /\ UNCHANGED otherThanJob

SpecJob == Init /\ [][NextJob]_vars

SpecPanel == Init /\ [][NextPanel]_vars

SpecWS == Init /\ [][NextWS]_vars

\* The browser's event loop runs what is due: a message that arrived is
\* handed to onmessage, a timer set by setTimeout fires, and a close that
\* was started completes. Nothing obliges the caller to start, cancel or
\* reset, the server to emit, or the network to fail.
FairWS ==
    \A c \in 1..MaxConns :
        /\ WF_vars(Deliver(c) /\ UNCHANGED otherThanWS)
        /\ WF_vars(DisconnectTimer(c) /\ UNCHANGED otherThanWS)
        /\ WF_vars(CloseDone(c) /\ UNCHANGED otherThanWS)

SpecWSFair == Init /\ [][NextWS]_vars /\ FairWS

SpecSearch == Init /\ [][NextSearch]_vars

SpecLogin == Init /\ [][NextLogin]_vars

SpecSess == Init /\ [][NextSess]_vars

SpecCache == Init /\ [][NextCache]_vars

SpecKey == Init /\ [][NextKey]_vars

SpecRun == Init /\ [][NextRun]_vars

SpecRank == Init /\ [][NextRank]_vars

SpecCred == Init /\ [][NextCred]_vars

SpecPoll == Init /\ [][NextPoll]_vars

SpecMod == Init /\ [][NextMod]_vars

\* ------------------------------------------------------------------ C1
\* C1: under any interleaving of start, cancel, forceCancelStale, job
\* completion/failure, restarts and clock ticks, at most one ScrapeJob has
\* status Running.
C1_AtMostOneRunning == Cardinality(Running(jobs)) <= 1

\* A second job is Running after the first reached a terminal status.
C1_Witness ==
    /\ Len(jobs) = 2
    /\ jobs[1].status \in Terminal
    /\ jobs[2].status = "Running"

\* ------------------------------------------------------------------ C2
\* C2: start() while a job is Running returns AlreadyRunningError, creates
\* no job and leaves the running job (and its run) unchanged; when no job is
\* Running, start() returns ok and appends one new Running job, the earlier
\* records untouched.
C2_StartStep ==
    IF Running(jobs) # {}
    THEN /\ StartResult(jobs) = "AlreadyRunningError"
         /\ (start(MaxJobs) => jobs' = jobs /\ orch' = orch)
    ELSE /\ StartResult(jobs) = "ok"
         /\ (start(MaxJobs) =>
               /\ Len(jobs') = Len(jobs) + 1
               /\ SubSeq(jobs', 1, Len(jobs)) = jobs
               /\ jobs'[Len(jobs')].status = "Running"
               /\ orch'[Len(jobs')] = "discover")

C2_StartWhileRunning == [][C2_StartStep]_vars

\* A start succeeded after the first job's terminal status, and the job it
\* created is Running, so that a further start is rejected.
C2_Witness ==
    /\ Len(jobs) = 2
    /\ jobs[1].status \in Terminal
    /\ jobs[2].status = "Running"
    /\ jobs[2].total_targets > 0
    /\ StartResult(jobs) = "AlreadyRunningError"

\* ------------------------------------------------------------------ C3
\* C3: when cancellation was requested while target i (counted from 0) was
\* being processed, the job stays Running with completed_targets <= i+1 until
\* it ends, it ends Cancelled (never Completed) with completed_targets <= i+1,
\* the store keeps what was gathered, cancel itself changes no status, and a
\* run turns its job Cancelled only at a target boundary.
C3_Pending ==
    \A j \in JobIds :
        cancelAt[j] # NoCancel =>
            /\ jobs[j].status = "Running"
            /\ jobs[j].cancellation_requested
            /\ jobs[j].completed_targets <= cancelAt[j] + 1

C3_Step ==
    \A j \in JobIds :
        /\ (cancelAt[j] # NoCancel /\ jobs'[j].status # "Running") =>
              /\ jobs'[j].status = "Cancelled"
              /\ jobs'[j].completed_targets <= cancelAt[j] + 1
              /\ store \subseteq store'
        /\ (jobs'[j].cancellation_requested # jobs[j].cancellation_requested) =>
              jobs'[j].status = jobs[j].status
        /\ (jobs[j].status = "Running" /\ jobs'[j].status = "Cancelled") =>
              \/ jobs'[j].completed_targets = jobs[j].completed_targets + 1
              \/ jobs'[j].total_targets # jobs[j].total_targets
              \/ Stale(jobs[j])

C3_CancelAtBoundary == [](C3_Pending) /\ [][C3_Step]_vars

\* A job cancelled by request with some, but not all, targets done and
\* their results in the store.
C3_Witness ==
    \E j \in JobIds :
        /\ jobs[j].status = "Cancelled"
        /\ jobs[j].cancellation_requested
        /\ jobs[j].completed_targets >= 1
        /\ jobs[j].completed_targets < jobs[j].total_targets
        /\ jobs[j].idle = 0
        /\ store # {}

\* ------------------------------------------------------------------ C4
\* C4: forceCancelStale changes exactly the jobs that are Running with a
\* last progress update older than the threshold, and sets them Cancelled;
\* fresh Running jobs and terminal jobs are left as they are; the count
\* returned is the number of jobs changed; and after a stale job was
\* cancelled start() succeeds.
C4_Step ==
    forceCancelStale =>
        /\ \A j \in JobIds :
              IF jobs[j].status = "Running" /\ jobs[j].idle > StaleThreshold
              THEN jobs'[j].status = "Cancelled"
              ELSE jobs'[j] = jobs[j]
        /\ ForceCount(jobs) = Cardinality(Changed(jobs, jobs'))
        /\ (Changed(jobs, jobs') # {} => StartResult(jobs') = "ok")

C4_ForceCancelOnlyStale == [][C4_Step]_vars

\* A job that was Cancelled without any cancellation request (so by
\* forceCancelStale), followed by a successful start.
C4_Witness ==
    /\ Len(jobs) = 2
    /\ jobs[1].status = "Cancelled"
    /\ ~jobs[1].cancellation_requested
    /\ jobs[2].status = "Running"

\* ------------------------------------------------------------------ C5
\* C5: the job id a successful start returns names a recorded job that is
\* Running with zero progress at that moment; no status query of the panel
\* finds its job missing or in a status other than running / completed /
\* failed / cancelled; and startScrape stores exactly that id with status
\* 'running' and all counters zero.
C5_Recorded ==
    /\ startReq.st = "ok" => startReq.job_id \in JobIds
    /\ scrapeJob.job_id # 0 => scrapeJob.job_id \in JobIds
    /\ statusReq.st # "notfound"
    /\ statusReq.st = "ok" =>
          /\ statusReq.view.status \in {"running", "completed", "failed", "cancelled"}
    /\ scrapeJob.status \in {NULL, "running", "completed", "failed", "cancelled"}

C5_Step ==
    /\ (startReq.st = "sent" /\ startReq'.st = "ok") =>
          /\ startReq'.job_id = Len(jobs')
          /\ jobs'[startReq'.job_id] = NewJob
    /\ (startReq.st = "ok" /\ startReq'.st = "idle") =>
          /\ scrapeJob'.job_id = startReq.job_id
          /\ scrapeJob'.status = "running"
          /\ scrapeJob'.total_countries = 0
          /\ scrapeJob'.completed_countries = 0
          /\ scrapeJob'.total_universities = 0
          /\ scrapeJob'.completed_universities = 0
          /\ ~isLoading'

C5_VisibleFromStart == [](C5_Recorded) /\ [][C5_Step]_vars

\* After a successful startScrape, a status query for that job was answered.
C5_Witness ==
    /\ scrapeJob.job_id = 1
    /\ scrapeJob.status = "running"
    /\ scrapeJob.total_universities = 0
    /\ statusReq.st = "ok"
    /\ statusReq.view.job_id = 1
    /\ startReq.st = "idle"
    /\ ~isLoading

ProgressSteps(pm) ==
    LET IsProgress(e) == e.stepName = "progress"
        es == SelectSeq(pm, IsProgress)
    IN [i \in 1..Len(es) |-> es[i].step]

\* ----------------------------------------------------------------------
\* C7: while the hook has a current search, the progress entries of
\* progressMessages are exactly the progress events that search's connection
\* has delivered, in arrival order, and currentStep is the step of the last
\* of them (0 before the first).
C7_ProgressInOrder ==
    hook.clientRef # 0 =>
        /\ ProgressSteps(hook.progressMessages) = arrived
        /\ hook.currentStep = IF arrived = <<>> THEN 0 ELSE arrived[Len(arrived)]

\* ----------------------------------------------------------------------
\* C8: the request the Search form has sent has target_semester in
\* {1, 2, null}, the chosen minimum in min_mappable_modules, the selected
\* module codes in target_modules, and target_countries null exactly when no
\* country is selected.
C8_RequestCarriesForm ==
    searchReq.st = "sent" =>
        /\ searchReq.body.target_semester \in {Some(1), Some(2), Null}
        /\ searchReq.body.min_mappable_modules = Some(search.minMappableModules)
        /\ searchReq.body.target_modules = Some({m.code : m \in search.selectedModules})
        /\ searchReq.body.target_countries = Null <=> search.selectedCountries = {}

\* ----------------------------------------------------------------------
\* C9: a search against an empty store is answered with EmptyDatabaseError
\* and never with a successful empty list, a populated store without a match
\* answers success with zero results; in the client the first ends in the
\* error view and the second in the results view with zero universities.
C9_Answer ==
    searchReq.st = "answered" =>
        /\ searchReq.case = "empty" => ~searchReq.resp.ok
        /\ searchReq.case = "nomatch" =>
               searchReq.resp.ok /\ searchReq.resp.results = <<>>

C9_Step ==
    searchReq.st = "answered" /\ searchReq'.st = "idle" =>
        /\ searchReq.case = "empty" =>
               showError(search') /\ ~showResults(search') /\ ~showForm(search')
        /\ searchReq.case = "nomatch" =>
               /\ showResults(search') /\ ~showError(search') /\ ~showForm(search')
               /\ Len(search'.results.val) = 0

C9_EmptyIsNotNoMatch == [](C9_Answer) /\ [][C9_Step]_vars

C9_Witness ==
    /\ searchReq.st = "idle" /\ searchReq.case = "empty"
    /\ showError(search)

\* ----------------------------------------------------------------------
\* C10: a session is created only by the step that handles a successful
\* verifyLogin answer, with the credentials that were verified; a failed or
\* thrown verification leaves the session null, sets loginError and ends with
\* isLoading false.
C10_Step ==
    /\ session' # session /\ session'.present =>
           /\ loginReq.st = "answered"
           /\ ~loginReq.result.thrown /\ loginReq.result.success
           /\ session'.credentials = loginReq.credentials
    /\ loginReq.st = "answered" /\ loginReq'.st = "idle"
         /\ (loginReq.result.thrown \/ ~loginReq.result.success) =>
           /\ session = NoSession /\ session' = NoSession
           /\ login'.loginError # NULL
           /\ ~login'.isLoading

C10_SessionOnlyAfterVerify == [][C10_Step]_vars

C10_Witness ==
    /\ session = NoSession /\ loginReq.st = "idle"
    /\ login.loginError = "Invalid credentials" /\ ~login.isLoading

\* ----------------------------------------------------------------------
\* C11: whenever _ensure_on_search_page returns True the browser is on the
\* search page; it logs in and navigates not at all when the call started
\* there, logs in when it started on the login surface, and navigates once
\* when it started on an unrelated page.
C11_SuccessMeansOnTarget ==
    sess.pc = "returned" /\ sess.result = "True" =>
        /\ OnSearchPage(sess.current_url)
        /\ OnSearchPage(sess.first) => sess.logins = 0 /\ sess.navigations = 0
        /\ OnLoginSurface(sess.first) => sess.logins = 1 /\ sess.navigations = 0
        /\ ~OnSearchPage(sess.first) /\ ~OnLoginSurface(sess.first) =>
               sess.navigations = 1

C14_RateLimited ==
    /\ run.in_flight <= 1
    /\ run.in_flight = 1 => run.slept[run.target] \in DELAY_MIN..DELAY_MAX
    /\ \A t \in RunTargets :
          /\ run.outcome[t] \in {"ok", "error"} => run.slept[t] \in DELAY_MIN..DELAY_MAX
          /\ run.outcome[t] = "hit" => run.slept[t] = 0
    /\ run.order = [i \in 1..Len(run.order) |-> i]
    /\ \A i \in 1..Len(run.order) - 1 : run.outcome[run.order[i]] # "none"

C14_Witness ==
    /\ run.pc = "done"
    /\ \E t, u \in RunTargets :
          /\ run.outcome[t] = "hit" /\ run.slept[t] = 0
          /\ run.outcome[u] = "ok" /\ run.slept[u] = DELAY_MAX

\* ----------------------------------------------------------------------
\* C15: an unrecoverable error of one target does not abort the job: the
\* error is recorded against that target, the remaining targets are still
\* processed, and the job ends Completed with the data of the targets that
\* succeeded.
C15_ErrorDoesNotAbort ==
    /\ run.status # "Failed"
    /\ \A t \in RunTargets : run.outcome[t] = "error" <=> t \in run.errors
    /\ run.pc = "done" =>
          /\ run.status = "Completed"
          /\ Len(run.order) = MaxRunTargets
          /\ run.completed_targets = MaxRunTargets
          /\ run.data = {t \in RunTargets : run.outcome[t] \in {"hit", "ok"}}
          /\ run.errors \cap run.data = {}

C15_Witness ==
    /\ run.pc = "done" /\ run.status = "Completed"
    /\ run.outcome[1] = "error" /\ 1 \in run.errors
    /\ run.outcome[MaxRunTargets] = "ok" /\ run.data = {MaxRunTargets}

\* ----------------------------------------------------------------------
\* C16: the ranked output is ordered by country name ascending, then
\* mappable_count descending, then capacity of the requested semester
\* descending, then minimum GPA ascending; rows equal on all four keys keep
\* their input order; the ranks are 1..n in output order.
C16_Position(u) == CHOOSE i \in 1..Len(Candidates(mr.static)) : Candidates(mr.static)[i] = u

C16_Ordered(a, b) ==
    IF a.country # b.country THEN CountryIndex(a.country) < CountryIndex(b.country)
    ELSE IF a.mappable_count # b.mappable_count THEN a.mappable_count > b.mappable_count
    ELSE IF a.spots # b.spots THEN a.spots.val > b.spots.val
    ELSE IF a.min_cgpa # b.min_cgpa THEN a.min_cgpa < b.min_cgpa
    ELSE C16_Position(a.name) < C16_Position(b.name)

C16_RankOrder ==
    mr.out # Null =>
        LET out == mr.out.val
        IN /\ \A i \in 1..Len(out) : out[i].rank = i
           /\ \A i, j \in 1..Len(out) : i < j => C16_Ordered(out[i], out[j])

C16_Witness ==
    /\ mr.out # Null
    /\ mr.static = <<"Lund", "Melbourne", "KTH">>
    /\ Len(mr.out.val) >= 3
    /\ mr.out.val[1].name = "Melbourne"
    /\ mr.out.val[Len(mr.out.val) - 1].name = "Lund"
    /\ mr.out.val[Len(mr.out.val)].name = "KTH"

\* ----------------------------------------------------------------------
\* C17: a university is in the ranked output exactly when it is in a
\* selected country (or no country filter is given), accepts the cohort, has
\* a positive capacity for the requested semester and has at least
\* min_mappable of the target modules mappable.
C17_Names == {mr.out.val[i].name : i \in 1..Len(mr.out.val)}

C17_Qualifies(u) ==
    /\ mr.filters.countries = Null \/ ScrapedPool[u].country \in mr.filters.countries.val
    /\ u \in Elems(mr.static)
    /\ StaticPool[u].accepts
    /\ (IF mr.filters.semester = 1 THEN StaticPool[u].sem1_spots
                                   ELSE StaticPool[u].sem2_spots) > 0
    /\ Cardinality(ScrapedPool[u].mapped \cap mr.filters.targets) >= mr.filters.min_mappable

C17_IncludedIffQualifies ==
    mr.out # Null =>
        \A u \in Elems(Candidates(mr.static)) : u \in C17_Names <=> C17_Qualifies(u)

C19_UnknownExcluded ==
    mr.out # Null =>
        \A i \in 1..Len(mr.out.val) :
            /\ mr.out.val[i].name \in Elems(mr.static)
            /\ mr.out.val[i].spots # Unknown

\* ----------------------------------------------------------------------
\* C20: the credential is in no durable structure: a persisted job has
\* exactly the ScrapeJob attributes and no cache entry holds the credential
\* or its password. In the client it is held only by the in-memory session:
\* clearSession sets the session to null, after which isAuthenticated is
\* false and getCredentials gives null.
C20_Secrets ==
    {session.credentials, durable.held} \ {NoCredentials}

C20_Durable ==
    /\ \A i \in 1..Len(durable.jobs) : DOMAIN durable.jobs[i] = ScrapeJobFields
    /\ \A e \in durable.entries :
          /\ DOMAIN e = CacheEntryFields
          /\ DOMAIN e.key = {"sha256_of"}
          /\ \A c \in C20_Secrets :
                /\ e.key # c
                /\ e.payload # c.password /\ e.payload # c.username

C20_Client ==
    ~session.present => ~isAuthenticated /\ getCredentials = NoCredentials

C20_Step ==
    isAuthenticated /\ session' # session =>
        /\ session' = NoSession
        /\ UNCHANGED durable

C21_Step ==
    \A c \in ConnIds :
        ~conns[c].timer /\ conns'[c].timer =>
            /\ conns[c].wire # <<>>
            /\ Head(conns[c].wire).type \in {"complete", "error"}
            /\ conns'[c].terminals = conns[c].terminals + 1

C21_Disconnected(c) ==
    c \in ConnIds /\ ~conns[c].ws /\ ~conns[c].isConnected /\ ~isActive(conns[c])

C21_Pending ==
    \A c \in ConnIds : conns[c].terminals > 0 => conns[c].timer \/ C21_Disconnected(c)

C21_AutoDisconnect ==
    /\ []C21_Pending
    /\ [][C21_Step]_vars
    /\ \A c \in 1..MaxConns :
          (c \in ConnIds /\ conns[c].terminals > 0) ~> C21_Disconnected(c)

C21_Witness ==
    \E c \in ConnIds :
        /\ hook.clientRef = c
        /\ conns[c].terminals > 0 /\ ~conns[c].timer
        /\ C21_Disconnected(c)
        /\ hook.error # NULL

\* ----------------------------------------------------------------------
\* C22: every search started with startSearch eventually leaves the
\* searching state; in particular, when the connection of the current search
\* is closed (it failed to open, or it closed or failed after it opened,
\* with or without a terminal message) isSearching eventually becomes false.
C22_SearchEnds ==
    \A c \in 1..MaxConns :
        (c \in ConnIds /\ hook.clientRef = c /\ hook.isSearching
            /\ conns[c].ready = "CLOSED")
        ~> ~hook.isSearching

\* ----------------------------------------------------------------------
\* C23: after startSearch was called while an earlier search was in flight,
\* only events of the most recent search change results, error, currentStep
\* and progressMessages, and at most one connection of the hook is open.
C23_Shown(h) == <<h.results, h.error, h.currentStep, h.progressMessages>>

C23_OneOpen ==
    Cardinality({c \in ConnIds : conns[c].ready = "OPEN"}) <= 1

C23_Step ==
    \A c \in ConnIds :
        conns'[c] # conns[c] /\ C23_Shown(hook') # C23_Shown(hook) => c = hook.clientRef

C23_OnlyLatestSearch == []C23_OneOpen /\ [][C23_Step]_vars

\* ----------------------------------------------------------------------
\* C24: cancelSearch closes the connection of the search, clears the client
\* reference and sets isSearching to false; no message of a disconnected
\* client is delivered afterwards, so none changes results, error or
\* currentStep; with no active client cancelSearch only appends the
\* 'Cancelled' entry; disconnect twice is disconnect once.
C24_Cancelled == [step |-> 0, stepName |-> "Cancelled"]

C24_IsCancel == hook'.progressMessages = Append(hook.progressMessages, C24_Cancelled)

C24_CancelStep ==
    C24_IsCancel =>
        /\ hook'.clientRef = 0 /\ ~hook'.isSearching
        /\ hook' = [hook EXCEPT !.clientRef = 0, !.isSearching = FALSE,
                                !.progressMessages = hook'.progressMessages]
        /\ hook.clientRef # 0 =>
              /\ ~conns'[hook.clientRef].ws
              /\ ~isActive(conns'[hook.clientRef])
              /\ conns'[hook.clientRef].ready \notin {"CONNECTING", "OPEN"}
        /\ hook.clientRef = 0 =>
              /\ conns' = conns
              /\ hook' = [hook EXCEPT !.progressMessages = hook'.progressMessages]

C24_MessageStep ==
    \A c \in ConnIds :
        ~conns[c].ws /\ conns[c].wire # <<>> /\ conns'[c].wire = Tail(conns[c].wire) =>
            /\ hook'.results = hook.results
            /\ hook'.error = hook.error
            /\ hook'.currentStep = hook.currentStep

C24_Idempotent ==
    \A c \in ConnIds : Disconnect(Disconnect(conns[c])) = Disconnect(conns[c])

C24_CancelIsFinal == []C24_Idempotent /\ [][C24_CancelStep /\ C24_MessageStep]_vars

C24_Witness ==
    \E c \in ConnIds :
        /\ hook.clientRef = 0 /\ ~hook.isSearching /\ hook.results = NULL
        /\ hook.progressMessages # <<>>
        /\ hook.progressMessages[Len(hook.progressMessages)] = C24_Cancelled
        /\ ~conns[c].ws /\ conns[c].ready = "CLOSED" /\ conns[c].promise = "resolved"
        /\ conns[c].nsent > 0 /\ conns[c].terminals = 0

\* ----------------------------------------------------------------------
\* C25: a polling timer exists exactly while the panel is mounted and its
\* scrapeJob has status 'running'; there is never more than one; pollingRef
\* holds it; and each tick asks for the status of the job the panel shows
\* as running.
C25_TimerIffRunning ==
    /\ ap.live # {} <=> ap.mounted /\ ap.scrapeJob.status = "running"
    /\ Cardinality(ap.live) <= 1
    /\ ap.live # {} => ap.live = {ap.pollingRef}

C25_TickAsksRunningJob ==
    \A h \in ap.live : ap.timers[h] = ap.scrapeJob.job_id

C25_OneTimerWhileRunning == C25_TimerIffRunning /\ C25_TickAsksRunningJob

\* C26: cancelScrape sends the cancel request and then refreshes the status;
\* it never sets the local status itself. The click and the handling of the
\* cancel answer leave scrapeJob and the timer as they are; a successful
\* answer issues a status request, a failed one only sets the error. The
\* panel's status becomes 'cancelled' only by handling a status answer of the
\* registry that reports 'cancelled', and a status answer that still reports
\* 'running' leaves the live timer in place.
C26_Handles(r) == r \in ap.inbox /\ ap' = Handle([ap EXCEPT !.inbox = @ \ {r}], r)

C26_CancelAnswerStep ==
    \A r \in ap.inbox :
        C26_Handles(r) /\ r.kind = "cancel" =>
            /\ ap'.scrapeJob = ap.scrapeJob
            /\ ap'.live = ap.live /\ ap'.pollingRef = ap.pollingRef
            /\ r.ok => /\ ap'.error = ap.error
                       /\ \E q \in ap'.inbox : q.kind = "status" /\ q.view.job_id \in {0, r.view.job_id}
            /\ ~r.ok => /\ ap'.error = CancelFailed
                        /\ ap'.inbox = ap.inbox \ {r}

C26_ClickStep ==
    (ap.mounted /\ ap'.mounted /\ ap'.flagged # ap.flagged) =>
        /\ ap'.scrapeJob = ap.scrapeJob
        /\ ap'.live = ap.live

C26_CancelledStep ==
    (ap.mounted /\ ap.scrapeJob.status # "cancelled" /\ ap'.scrapeJob.status = "cancelled") =>
        \E r \in ap.inbox :
            /\ C26_Handles(r)
            /\ r.kind \in {"status", "latest"} /\ r.ok
            /\ r.view.status = "cancelled"
            /\ ap.server[r.view.job_id] = "cancelled"

C26_StillRunningStep ==
    \A r \in ap.inbox :
        (C26_Handles(r) /\ r.kind = "status" /\ r.ok /\ r.view.status = "running"
            /\ ap.scrapeJob.status = "running") =>
            /\ ap'.live = ap.live /\ ap'.live # {}

C26_CancelOnlyRequests ==
    [][C26_CancelAnswerStep /\ C26_ClickStep /\ C26_CancelledStep /\ C26_StillRunningStep]_vars

\* a cancel was requested for the job the panel now shows as cancelled, and
\* an earlier cancel request had failed
C26_Witness ==
    /\ ap.mounted /\ ap.scrapeJob.status = "cancelled"
    /\ ap.scrapeJob.job_id \in ap.flagged
    /\ ap.error = CancelFailed

\* C27: a rejected start request leaves scrapeJob (and the timer) unchanged,
\* sets the error, returns isLoading to false and sends nothing again; and
\* because the start control is disabled while isLoading and absent while
\* the status is 'running', at most one start request is outstanding, and
\* isLoading is true exactly while one is.
C27_StartsInFlight == {r \in ap.inbox : r.kind = "start"}

C27_OneOutstanding ==
    /\ Cardinality(C27_StartsInFlight) <= 1
    /\ ap.mounted => (ap.isLoading <=> C27_StartsInFlight # {})

C27_RejectedStep ==
    \A r \in ap.inbox :
        (C26_Handles(r) /\ r.kind = "start" /\ ~r.ok) =>
            /\ ap'.scrapeJob = ap.scrapeJob
            /\ ap'.live = ap.live
            /\ ap'.error = "Failed to start scrape"
            /\ ~ap'.isLoading
            /\ ap'.inbox = ap.inbox \ {r}
            /\ ap'.server = ap.server

C27_RejectedStartOnlyReports == []C27_OneOutstanding /\ [][C27_RejectedStep]_vars

\* a start request was rejected while an earlier job is shown as completed
C27_Witness ==
    /\ ap.mounted /\ ~ap.isLoading
    /\ ap.error = "Failed to start scrape"
    /\ ap.scrapeJob.status = "completed"

\* C28: after any sequence of add and remove operations the selected modules
\* have pairwise distinct, non-empty, trimmed, upper-case codes, in insertion
\* order; adding a code that is empty or already present after trimming and
\* upper-casing leaves the list unchanged; remove(c) deletes exactly the
\* module with code c. As stated, add(c) followed by remove(c) restores the
\* list whatever c is.
C28_Mods == msel.selectedModules

C28_WellFormed ==
    /\ \A i, j \in 1..Len(C28_Mods) : C28_Mods[i].code = C28_Mods[j].code => i = j
    /\ \A i \in 1..Len(C28_Mods) :
         /\ C28_Mods[i].code # <<>>
         /\ Head(C28_Mods[i].code) # " "
         /\ C28_Mods[i].code[Len(C28_Mods[i].code)] # " "
         /\ \A k \in 1..Len(C28_Mods[i].code) : C28_Mods[i].code[k] \notin {"a", "b", "n"}

C28_Without(mods, i) == SubSeq(mods, 1, i - 1) \o SubSeq(mods, i + 1, Len(mods))

C28_AddAppends ==
    \A raw \in CodeInputs, nm \in NameInputs :
        LET code == CodeOf(raw)
            after == AddModule(C28_Mods, raw, nm)
        IN IF code = <<>> \/ HasCode(C28_Mods, code)
           THEN after = C28_Mods
           ELSE /\ Len(after) = Len(C28_Mods) + 1
                /\ SubSeq(after, 1, Len(C28_Mods)) = C28_Mods
                /\ after[Len(after)].code = code

C28_RemoveExactlyOne ==
    \A i \in 1..Len(C28_Mods) :
        RemoveModule(C28_Mods, C28_Mods[i].code) = C28_Without(C28_Mods, i)

C28_StepInOrder ==
    \/ msel'.selectedModules = C28_Mods
    \/ /\ Len(msel'.selectedModules) = Len(C28_Mods) + 1
       /\ SubSeq(msel'.selectedModules, 1, Len(C28_Mods)) = C28_Mods
    \/ \E i \in 1..Len(C28_Mods) : msel'.selectedModules = C28_Without(C28_Mods, i)

C28_AddRemoveRestoresAny ==
    \A raw \in CodeInputs, nm \in NameInputs :
        RemoveModule(AddModule(C28_Mods, raw, nm), CodeOf(raw)) = C28_Mods

C28_AddRemoveRestoresNew ==
    \A raw \in CodeInputs, nm \in NameInputs :
        ~HasCode(C28_Mods, CodeOf(raw)) =>
            RemoveModule(AddModule(C28_Mods, raw, nm), CodeOf(raw)) = C28_Mods

\* the claim as stated
C28_AsStated ==
    C28_WellFormed /\ C28_AddAppends /\ C28_RemoveExactlyOne /\ C28_AddRemoveRestoresAny

\* the claim with the round trip kept for codes that are not in the list
C28_ModuleList ==
    /\ [](C28_WellFormed /\ C28_AddAppends /\ C28_RemoveExactlyOne /\ C28_AddRemoveRestoresNew)
    /\ [][C28_StepInOrder]_vars

\* three modules were added, typed in lower case with spaces, and the
\* middle one was removed
C28_Witness ==
    /\ Len(C28_Mods) = 2
    /\ C28_Mods[1].code = <<"A", " ", "B">>
    /\ C28_Mods[2].code = <<"A">>
    /\ C28_Mods[2].name = <<"n">>

\* C29: at most one of the form, the results view and the error view is
\* shown, and none while a search is in flight; when a search finishes,
\* isSearching is false and exactly one of the results view and the error
\* view is shown; 'New Search' / 'Try Again' returns to the form with
\* results, error and execution time cleared.
C29_Shown(st) ==
    {v \in {"form", "results", "error"} :
        \/ v = "form" /\ showForm(st)
        \/ v = "results" /\ showResults(st)
        \/ v = "error" /\ showError(st)}

C29_OneView ==
    /\ Cardinality(C29_Shown(search)) <= 1
    /\ search.isSearching => C29_Shown(search) = {}
    /\ searchReq.st # "idle" => search.isSearching

C29_FinishStep ==
    (search.isSearching /\ ~search'.isSearching) =>
        /\ C29_Shown(search') \in {{"results"}, {"error"}}
        /\ C29_Shown(search') = {"results"} <=> searchReq.resp.ok
        /\ searchReq'.st = "idle"

C29_NewSearchStep ==
    (C29_Shown(search) \in {{"results"}, {"error"}} /\ search' # search /\ loadReq' = loadReq) =>
        /\ C29_Shown(search') = {"form"}
        /\ search'.results = Null /\ search'.error = NULL /\ search'.executionTime = NULL
        /\ search' = [search EXCEPT !.results = Null, !.error = NULL, !.executionTime = NULL]

C29_OneViewAtATime == []C29_OneView /\ [][C29_FinishStep /\ C29_NewSearchStep]_vars

\* a search failed and 'Try Again' brought back the form
C29_Witness ==
    /\ searchReq.st = "idle" /\ searchReq.case = "failed"
    /\ C29_Shown(search) = {"form"}
    /\ search.selectedModules # {}

\* C30: no search request is sent unless at least one module is selected and
\* the database status reports populated: a request leaves only from the
\* form, with isSearching false before it, a populated status and a
\* non-empty module list, which it carries; nothing else changes the
\* request, and results, error and isSearching change only when a request
\* leaves or is answered or a view is dismissed.
C30_RequestStep ==
    (searchReq'.st = "sent" /\ searchReq.st # "sent") =>
        /\ search.selectedModules # {}
        /\ search.dbStatus = "populated"
        /\ ~search.isSearching /\ showForm(search)
        /\ searchReq'.body.target_modules = Some({m.code : m \in search.selectedModules})
        /\ search'.isSearching

C30_NoModulesStep ==
    (search.selectedModules = {} \/ search.dbStatus # "populated") =>
        /\ searchReq.st = "idle" /\ searchReq'.st = "idle"
        /\ search'.isSearching = search.isSearching
        /\ search'.results = search.results \/ search'.results = Null
        /\ ~search'.isSearching

C30_InFlight ==
    searchReq.st # "idle" =>
        /\ search.isSearching /\ ~SearchEnabled(search)
        /\ searchReq.body.target_modules.val # {}

C30_NoRequestWithoutModules == []C30_InFlight /\ [][C30_RequestStep /\ C30_NoModulesStep]_vars

\* a request is in flight for one selected module
C30_Witness ==
    /\ searchReq.st = "sent"
    /\ Cardinality(search.selectedModules) = 1
    /\ search.dbStatus = "populated"

====
